---------------------------- MODULE Spec2Model ----------------------------
(***************************************************************************)
(* Verification model of the greptilecord bot.                             *)
(*                                                                         *)
(* Part 1: the request governor of src/v1-stable/greptilebot.py            *)
(* (active_queries, last_query_time, user_queries, can_make_query, search, *)
(* process_query), plus the quota lookup of v2-dev QueryService.           *)
(*                                                                         *)
(* Scheduling: one asyncio event loop. Code between two suspension points  *)
(* runs atomically, so each action below is the code between two awaits    *)
(* that really suspend. `await can_make_query(...)` does not suspend: the  *)
(* coroutine contains no await of its own, so it runs to completion        *)
(* inside the caller's step.                                               *)
(***************************************************************************)
EXTENDS Integers, Sequences, FiniteSets, Bags, TLC

VARIABLES
    now,              \* wall clock in seconds: time.time() and datetime.now()
    active_queries,   \* v1-stable:33   set of query_id strings
    last_query_time,  \* v1-stable:34   defaultdict(float): user -> seconds
    user_queries,     \* v1-stable:156  user -> query_type -> list of datetimes
    CONFIG,           \* v1-stable:153  dict key -> value, loaded by setup_bot
    tasks,            \* bag of running search/process_query invocations
    reply,            \* the governor's answer sent in the step just taken
    api_calls,        \* requests dispatched upstream today, per <<user, type>>
    query_limits,     \* v2-dev QueryService: max_*_per_day attributes
    qarg,             \* arguments of the latest can_make_query call of SpecQuota
    qret,             \* and its result
    repos,            \* rows of the repos table: the registry
    ops,              \* bag of running addrepo / reindex / polling operations
    posts,            \* POST /repositories requests sent, per repository
    ev,               \* what the indexing step just taken read, returned and showed
    last_indexed_at,  \* v2-dev: the last_indexed_at column, per identity
    first_poll,       \* v2-dev, history: the status that the first status check
                      \* after the insertion of the row reported, per identity
    last_error_time,    \* v1-stable: report_error.last_error_time
    last_error_message, \* v1-stable: report_error.last_error_message
    notified,         \* history: when each message last reached the operator
    notice,           \* the message report_error sent in the step just taken
    whitelist,        \* rows of the whitelist table: user_id -> role
    verdict,          \* the command invoked in the step just taken and its fate
    secrets_file,     \* secrets.yaml as the process finds it at startup
    process,          \* the phase of the bot process, its exit code and output
    max_connections,  \* DatabasePool.max_connections
    pool,             \* DatabasePool._pool: the number of idle connections queued
    clients,          \* the commands that use the pool: scope, position, held
    config_store,     \* v2-dev: rows of the config table, key -> value
    paging,           \* v1-stable search: the locals of the loop that builds embeds
    upstream          \* the status GET /repositories/{id} has settled on, per repository

\* the state of the request governor and of the quota lookup
governorVars == <<now, active_queries, last_query_time, user_queries, CONFIG, tasks,
                  reply, api_calls, query_limits, qarg, qret>>

\* the state of repository indexing
\* the state only v2-dev has
v2Vars == <<last_indexed_at, first_poll>>

indexVars == <<repos, ops, posts, ev, last_indexed_at, first_poll>>

\* the state of error reporting, of the whitelist and of the process
serviceVars == <<last_error_time, last_error_message, notified, notice, whitelist,
                 verdict, secrets_file, process>>

\* the state of the connection pool, of the v2-dev config table and of paging
resourceVars == <<max_connections, pool, clients, config_store, paging, upstream>>

vars == <<now, active_queries, last_query_time, user_queries, CONFIG, tasks,
          reply, api_calls, query_limits, qarg, qret, repos, ops, posts, ev,
          last_indexed_at, first_poll, last_error_time, last_error_message,
          notified, notice, whitelist, verdict, secrets_file, process,
          max_connections, pool, clients, config_store, paging, upstream>>

----------------------------------------------------------------------------
(* Bounds of the model *)

\* Spec: the clock visits every second of a day up to FineSec
FineSec == 5
\* SpecDay: the clock visits every COOLDOWN_TIME-th second of a day up to MaxSec
MaxSec == 25
\* invocations running at the same time
MaxTasks == 2
\* last calendar day of a behaviour (the first one is day 1)
MaxDay == 2
\* largest single clock step of Spec
MaxStep == 2
\* largest stored daily maximum drawn for the quota lookup
MaxLimit == 2
\* largest number of today's records drawn for the quota lookup
MaxCount == 6
\* indexing operations running at the same time
MaxOps == 2
\* largest file count in a status response
MaxFiles == 2
\* status polls of one check_indexing_status call that the model follows
MaxPolls == 3
\* POST /repositories requests per repository that the model follows
MaxPosts == 2

Users == {1, 2, 3}
Channels == {1, 2}

\* the workload of Spec: two users other than the owner
BroadUsers == {2, 3}
\* the workload of SpecDay: one user other than the owner
DayUsers == {2}
\* the channel of SpecDay and SpecOwner
DayChannels == {1}

----------------------------------------------------------------------------
(* Program constants *)

COOLDOWN_TIME == 5
SecondsPerDay == 86400
DEFAULT_MAX_QUERIES == 5

\* secrets['BOT_OWNER_ID']
BOT_OWNER_ID == "1"

\* str(int) for the small ids of the model
Str(n) == <<"0", "1", "2", "3", "4", "5", "6", "7", "8", "9">>[n + 1]

\* Strings that the code builds from parts are sequences of their parts:
\* words separated by "_" for keys and identifiers, the pieces of an
\* f-string for query_id.
QUERIES == <<"queries">>
SMART_QUERIES == <<"smart", "queries">>
SEARCH == <<"search">>
QueryTypes == {QUERIES, SMART_QUERIES, SEARCH}

\* str.upper(), word by word
UpperWord(w) ==
    CASE w = "queries" -> "QUERIES"
      [] w = "smart" -> "SMART"
      [] w = "search" -> "SEARCH"
      [] w = "searches" -> "SEARCHES"
      [] OTHER -> w

Upper(s) == [i \in 1..Len(s) |-> UpperWord(s[i])]

\* the keys setup_bot stores
MAX_QUERIES_PER_DAY == <<"MAX", "QUERIES", "PER", "DAY">>
MAX_SMART_QUERIES_PER_DAY == <<"MAX", "SMART", "QUERIES", "PER", "DAY">>

\* default_config of setup_bot, restricted to the quota keys
default_config ==
    [k \in {MAX_QUERIES_PER_DAY, MAX_SMART_QUERIES_PER_DAY} |->
        IF k = MAX_QUERIES_PER_DAY THEN 5 ELSE 1]

\* faulty variant of query_id: the marker names the channel only
query_id_channel(u, ch) == <<"-", Str(ch)>>

\* f"{ctx.author.id}-{ctx.channel.id}"
query_id(u, ch) == <<Str(u), "-", Str(ch)>>

\* datetime.date() of a timestamp
DateOf(t) == t \div SecondsPerDay

\* A usage record is a datetime of which the program only ever reads .date()
\* (can_make_query); the lists of user_queries hold that date.

Today == DateOf(now)

----------------------------------------------------------------------------
(* can_make_query, v1-stable *)

\* faulty variant of IsOwner: compares with the name of the secret, not its value
IsOwner_quoted_name(u) == Str(u) = "BOT_OWNER_ID"

IsOwner(u) == Str(u) = BOT_OWNER_ID

\* the user whose id is BOT_OWNER_ID
Owner == CHOOSE u \in Users : Str(u) = BOT_OWNER_ID

\* f'MAX_{query_type.upper()}_QUERIES_PER_DAY'
ConfigKey(query_type) == <<"MAX">> \o Upper(query_type) \o <<"QUERIES", "PER", "DAY">>

\* int(CONFIG.get(key, 5))
MaxQueries(cfg, query_type) ==
    IF ConfigKey(query_type) \in DOMAIN cfg
    THEN cfg[ConfigKey(query_type)]
    ELSE DEFAULT_MAX_QUERIES

\* [date for date in list if date.date() == today]
PruneToday(list, today) == SelectSeq(list, LAMBDA d : d = today)

\* user_queries after the call: the owner returns before the list is pruned
PrunedQueries(uq, u, query_type, today) ==
    IF IsOwner(u)
    THEN uq
    ELSE [uq EXCEPT ![u][query_type] = PruneToday(@, today)]

\* faulty variant of can_make_query: no early return for the owner
can_make_query_no_owner(uq, cfg, u, query_type, today) ==
    Len(PruneToday(uq[u][query_type], today)) < MaxQueries(cfg, query_type)

can_make_query(uq, cfg, u, query_type, today) ==
    IF IsOwner(u)
    THEN TRUE
    ELSE Len(PruneToday(uq[u][query_type], today)) < MaxQueries(cfg, query_type)

----------------------------------------------------------------------------
(* QueryService.can_make_query, v2-dev *)

max_queries_per_day == <<"max", "queries", "per", "day">>
max_smart_queries_per_day == <<"max", "smart", "queries", "per", "day">>
max_searches_per_day == <<"max", "searches", "per", "day">>

\* QueryService.__init__
default_limits ==
    [a \in {max_queries_per_day, max_smart_queries_per_day, max_searches_per_day} |->
        IF a = max_queries_per_day THEN 5
        ELSE IF a = max_smart_queries_per_day THEN 1 ELSE 10]

\* f'max_{query_type}_per_day'
AttrName(query_type) == <<"max">> \o query_type \o <<"per", "day">>

\* getattr(self, name, 5)
LimitAttr(limits, query_type) ==
    IF AttrName(query_type) \in DOMAIN limits
    THEN limits[AttrName(query_type)]
    ELSE DEFAULT_MAX_QUERIES

\* count is the result of SELECT COUNT(*) ... DATE(timestamp) = today
v2_can_make_query(limits, u, query_type, count) ==
    IF IsOwner(u)
    THEN TRUE
    ELSE count < LimitAttr(limits, query_type)

----------------------------------------------------------------------------
(* The governor checks of search and process_query *)

\* faulty variant of ConcurrencyDenied: looks the user id up, not the query_id
ConcurrencyDenied_user_key(u, ch) == <<Str(u)>> \in active_queries

ConcurrencyDenied(u, ch) == query_id(u, ch) \in active_queries

CooldownDenied(u) == now - last_query_time[u] < COOLDOWN_TIME

\* COOLDOWN_TIME - (current_time - last_query_time[ctx.author.id])
CooldownLeftAt(current_time, last) == COOLDOWN_TIME - (current_time - last)

\* faulty variant of cooldown_left: the time elapsed, not the time remaining
cooldown_left_elapsed(u) == now - last_query_time[u]

cooldown_left(u) == CooldownLeftAt(now, last_query_time[u])

\* faulty variant of Decision: the quota check comes before the cooldown check
Decision_quota_first(u, ch, query_type) ==
    IF ConcurrencyDenied(u, ch) THEN "pending"
    ELSE IF ~can_make_query(user_queries, CONFIG, u, query_type, Today) THEN "quota"
    ELSE IF CooldownDenied(u) THEN "cooldown"
    ELSE "accepted"

\* the if-chain: which answer the invocation gets
Decision(u, ch, query_type) ==
    IF ConcurrencyDenied(u, ch) THEN "pending"
    ELSE IF CooldownDenied(u) THEN "cooldown"
    ELSE IF ~can_make_query(user_queries, CONFIG, u, query_type, Today) THEN "quota"
    ELSE "accepted"

\* can_make_query is reached only past the first two checks
QuotaEvaluated(kind) == kind \in {"quota", "accepted"}

ActiveAfter(kind, u, ch) ==
    IF kind = "accepted" THEN active_queries \cup {query_id(u, ch)} ELSE active_queries

\* faulty variant of LastQueryTimeAfter: the timestamp is taken before the checks
LastQueryTimeAfter_every_request(kind, u) == [last_query_time EXCEPT ![u] = now]

LastQueryTimeAfter(kind, u) ==
    IF kind = "accepted" THEN [last_query_time EXCEPT ![u] = now] ELSE last_query_time

NoReply == [user |-> 0, chan |-> 0, type |-> <<>>, kind |-> "none", wait |-> 0]

Task(u, ch, query_type, pc) == [user |-> u, chan |-> ch, type |-> query_type, pc |-> pc]

Governed(u, ch, query_type) ==
    LET kind == Decision(u, ch, query_type) IN
    /\ kind = "accepted" => BagCardinality(tasks) < MaxTasks
    /\ reply' = [user |-> u, chan |-> ch, type |-> query_type, kind |-> kind,
                 wait |-> IF kind = "cooldown" THEN cooldown_left(u) ELSE 0]
    /\ user_queries' = IF QuotaEvaluated(kind)
                       THEN PrunedQueries(user_queries, u, query_type, Today)
                       ELSE user_queries
    /\ active_queries' = ActiveAfter(kind, u, ch)
    /\ last_query_time' = LastQueryTimeAfter(kind, u)
    /\ tasks' = IF kind = "accepted"
                THEN tasks (+) SetToBag({Task(u, ch, query_type, "initial_send")})
                ELSE tasks
    /\ UNCHANGED <<now, CONFIG, api_calls, query_limits, qarg, qret>>
    /\ UNCHANGED <<indexVars, serviceVars, resourceVars>>

search(u, ch) == Governed(u, ch, SEARCH)

process_query(u, ch, genius) ==
    Governed(u, ch, IF genius THEN SMART_QUERIES ELSE QUERIES)

----------------------------------------------------------------------------
(* The accepted invocation, from the initial message to the finally block *)

Calls(log, u, query_type) ==
    IF <<u, query_type>> \in DOMAIN log THEN log[<<u, query_type>>] ELSE 0

Running == BagToSet(tasks)

Ended(t) == tasks (-) SetToBag({t})

Moved(t, pc) == Ended(t) (+) SetToBag({[t EXCEPT !.pc = pc]})

\* finally: active_queries.remove(query_id)
Release(t) == active_queries \ {query_id(t.user, t.chan)}

\* From the initial message to the upstream POST:
\*   message = await ctx.send(embed=initial_embed)   (before the try block)
\*   repos = await get_repos(); if not repos: ... return
\*   make_api_call(...) is started
\* outcome "send_raises": ctx.send raised and the exception leaves the handler;
\* "no_repos": the registry is empty; "dispatched": the POST is on its way.
Begin(t, outcome) ==
    /\ t \in Running /\ t.pc = "initial_send"
    /\ tasks' = IF outcome = "dispatched" THEN Moved(t, "api_call") ELSE Ended(t)
    /\ active_queries' = IF outcome = "no_repos" THEN Release(t) ELSE active_queries
    /\ api_calls' = IF outcome = "dispatched"
                    THEN [k \in DOMAIN api_calls \cup {<<t.user, t.type>>} |->
                            IF k = <<t.user, t.type>>
                            THEN Calls(api_calls, t.user, t.type) + 1
                            ELSE api_calls[k]]
                    ELSE api_calls
    /\ reply' = NoReply
    /\ UNCHANGED <<now, last_query_time, user_queries, CONFIG, query_limits, qarg, qret>>
    /\ UNCHANGED <<indexVars, serviceVars, resourceVars>>

\* faulty variant of Recorded: the record is appended however the call ended
Recorded_every_outcome(query_type, outcome) == TRUE

\* whether the usage record is appended, given how the rest of the try block
\* went: "error" make_api_call raised; "empty" the result is empty (search
\* returns early, process_query fails on embeds[0]); "send_raises"
\* message.edit or ctx.send raised; "log_raises" log_to_channel raised
\* (search appends before it, process_query after it); "ok" nothing raised.
Recorded(query_type, outcome) ==
    \/ outcome = "ok"
    \/ outcome = "log_raises" /\ query_type = SEARCH

\* From the return of make_api_call to the end of the handler: rendering,
\* user_queries[...].append(datetime.now()), except, finally.
Finish(t, outcome) ==
    /\ t \in Running /\ t.pc = "api_call"
    /\ tasks' = Ended(t)
    /\ active_queries' = Release(t)
    /\ user_queries' = IF Recorded(t.type, outcome)
                       THEN [user_queries EXCEPT ![t.user][t.type] = Append(@, Today)]
                       ELSE user_queries
    /\ reply' = NoReply
    /\ UNCHANGED <<now, last_query_time, CONFIG, api_calls, query_limits, qarg, qret>>
    /\ UNCHANGED <<indexVars, serviceVars, resourceVars>>

----------------------------------------------------------------------------
(* The clock *)

\* d seconds pass; the model follows the clock up to `limit` seconds into a day
Tick(d, limit) ==
    /\ (now % SecondsPerDay) + d <= limit
    /\ now' = now + d
    /\ reply' = NoReply
    /\ UNCHANGED <<active_queries, last_query_time, user_queries, CONFIG, tasks,
                   api_calls, query_limits, qarg, qret>>
    /\ UNCHANGED <<indexVars, serviceVars, resourceVars>>

\* 24 hours pass; the count of today's dispatches starts again
NextDay ==
    /\ Today < MaxDay
    /\ now' = now + SecondsPerDay
    /\ reply' = NoReply
    /\ api_calls' = <<>>
    /\ UNCHANGED <<active_queries, last_query_time, user_queries, CONFIG, tasks,
                   query_limits, qarg, qret>>
    /\ UNCHANGED <<indexVars, serviceVars, resourceVars>>

----------------------------------------------------------------------------
(* Repository indexing: data *)

Repos == {"r1", "r2"}

\* the status strings of GET /repositories/{id}; "queued" stands for a string
\* the bot does not know
IndexingStatuses == {"completed", "failed", "submitted", "cloning", "processing"}
UpstreamStatuses == IndexingStatuses \cup {"queued"}

\* A JSON field of a response is the set of its values: empty when the field
\* is absent.
Missing == {}

\* NULL in a column of a row: the empty set, a value v is {v}
Null == {}

\* the responses of GET /repositories/{id} that carry no file counts
PlainResponses ==
    [status : {{st} : st \in UpstreamStatuses} \cup {Missing},
     filesProcessed : {Missing}, numFiles : {Missing}]

\* the responses with file counts up to MaxFiles
CountedResponses ==
    [status : {{"submitted"}, {"cloning"}, {"processing"}},
     filesProcessed : {{n} : n \in 0..MaxFiles}, numFiles : {{n} : n \in 0..MaxFiles}]

\* no response: ServerDisconnectedError after the retries, ClientResponseError
\* (such as 404), ClientError or another exception
CommError == [status |-> {"<error>"}, filesProcessed |-> Missing, numFiles |-> Missing]

\* get_repository_status returns None
None == [status |-> "<None>", filesProcessed |-> 0, numFiles |-> 0]

\* repo_info.get(field, default)
GetField(field, default) ==
    IF field = Missing THEN default ELSE CHOOSE value \in field : TRUE

\* faulty variant of get_repository_status: the status of the response is
\* not copied to the dictionary
get_repository_status_no_status(response) ==
    IF response = CommError
    THEN None
    ELSE [status |-> "Unknown",
          filesProcessed |-> GetField(response.filesProcessed, 0),
          numFiles |-> GetField(response.numFiles, 0)]

\* v1-stable get_repository_status(ctx, repo): the dictionary it returns
get_repository_status(response) ==
    IF response = CommError
    THEN None
    ELSE [status |-> GetField(response.status, "Unknown"),
          filesProcessed |-> GetField(response.filesProcessed, 0),
          numFiles |-> GetField(response.numFiles, 0)]

\* a percentage as the quotient num / den, den > 0
NoProgress == [num |-> 0, den |-> 0]

\* what a step of an operation showed: the command and the repository, the
\* step, the status information it read, the statuses read so far in the
\* operation for this repository, what index_repository or
\* check_indexing_status returned (if it returned), the final message of the
\* command (if it ended), and the progress displayed
Event(cmd, repo, step, info, reads, result, msg, progress) ==
    [cmd |-> cmd, repo |-> repo, step |-> step, info |-> info, reads |-> reads,
     result |-> result, msg |-> msg, progress |-> progress]

NoEvent == Event("none", "none", "none", None, {}, "", "", NoProgress)

\* a running operation: the command, the repository it works on, the
\* repositories a reindex still has to visit, its position, the statuses its
\* status reads of this repository returned, the polls and the synthetic
\* progress of check_indexing_status, and the last_indexed_at values in the
\* rows that check_and_update_repo_status of v2-dev fetched
Op(cmd, repo, todo, pc) ==
    [cmd |-> cmd, repo |-> repo, todo |-> todo, pc |-> pc, reads |-> {},
     polls |-> 0, progress |-> 0, snapshot |-> [r \in Repos |-> Null]]

RunningOps == BagToSet(ops)

OpEnded(op) == ops (-) SetToBag({op})

OpMoved(op, next) == OpEnded(op) (+) SetToBag({next})

\* the identities (remote, owner, name, branch) that have a row
Identities == BagToSet(repos)

\* SELECT * FROM repos WHERE remote=? AND owner=? AND name=? AND branch=?
\* finds a row
Registered(r) == BagIn(r, repos)

\* INSERT INTO repos (remote, owner, name, branch) VALUES (?, ?, ?, ?)
Inserted(r) == repos (+) SetToBag({r})

\* DELETE FROM repos WHERE remote=? AND owner=? AND name=? AND branch=?
Deleted(r) == [x \in Identities \ {r} |-> repos[x]]

InitIndex ==
    /\ repos = EmptyBag
    /\ ops = EmptyBag
    /\ posts = [r \in Repos |-> 0]
    /\ ev = NoEvent
    /\ last_indexed_at = [r \in Repos |-> Null]
    /\ first_poll = [r \in Repos |-> Null]

----------------------------------------------------------------------------
(* Repository indexing, v1-stable: addrepo, reindex, index_repository,
   check_indexing_status *)

\* CREATE TABLE config (key TEXT PRIMARY KEY, value TEXT): load_db_config
\* returns the rows as stored and update_config stores the str argument of
\* ~setconfig, so every value of CONFIG is a str ('3' for API_RETRIES)
ConfigValueType == "str"

\* range(CONFIG['API_RETRIES']): TypeError unless the value is an int
RangeRaises(type) == type # "int"

AlreadyIndexed == "This repository is already indexed."
RepositoryAdded == "Repository Added"
RepositoryRemoved == "Repository Removed"
RepositoryIndexed == "Repository Indexed"
DatabaseError == "A database error occurred. Please try again later."
UnexpectedError == "An unexpected error occurred. Please try again later."
UnexpectedReindexError ==
    "An unexpected error occurred while reindexing. Please try again later."
NoRepositories == "No repositories are currently indexed."
NoRepositoryFound == "No repository found with ID"
Reindexing == "Reindexing"

\* db_transaction is BEGIN ... COMMIT on a connection of its own. A
\* transaction that has read the table holds its read lock until it ends, so
\* when another transaction writes the table in the meantime, the write of
\* the first one fails with "database is locked" and it is rolled back.
\* faulty variant of Locked: the transactions do not exclude one another
Locked_not_isolated(o) == o

Locked(o) == IF o.pc = "insert" THEN [o EXCEPT !.pc = "locked"] ELSE o

\* the operations after a transaction other than theirs wrote the table
AfterWrite(running) == BagOfAll(Locked, running)

\* ~addrepo <remote> <owner/name> [branch] up to the SELECT of its
\* transaction: a registered repository is reported and the command ends
add_repo(r) ==
    /\ BagCardinality(ops) < MaxOps
    /\ IF Registered(r)
       THEN /\ ev' = Event("add_repo", r, "denied", None, {}, "", AlreadyIndexed, NoProgress)
            /\ ops' = ops
       ELSE /\ ops' = ops (+) SetToBag({Op("add_repo", r, {}, "insert")})
            /\ ev' = Event("add_repo", r, "selected", None, {}, "", "", NoProgress)
    /\ UNCHANGED <<repos, posts>>
    /\ UNCHANGED <<governorVars, v2Vars, serviceVars, resourceVars>>

\* add_repo from the INSERT to "Repository Added": the row is inserted and
\* committed, or the INSERT fails, the transaction is rolled back and the
\* command ends with "A database error occurred"
AddRepoInsert(op) ==
    /\ op \in RunningOps /\ op.cmd = "add_repo"
    /\ \/ /\ op.pc = "insert"
          /\ repos' = Inserted(op.repo)
          /\ ops' = AfterWrite(OpEnded(op)) (+) SetToBag({[op EXCEPT !.pc = "precheck"]})
          /\ ev' = Event("add_repo", op.repo, "registered", None, {}, "", RepositoryAdded,
                         NoProgress)
       \/ /\ op.pc = "locked"
          /\ repos' = repos
          /\ ops' = OpEnded(op)
          /\ ev' = Event("add_repo", op.repo, "rolled_back", None, {}, "", DatabaseError,
                         NoProgress)
    /\ UNCHANGED posts
    /\ UNCHANGED <<governorVars, v2Vars, serviceVars, resourceVars>>

\* ~reindex [repo_id]: get_repos returns (remote, owner, name, branch), so
\* r[0] == repo_id compares the remote with the id and selects nothing;
\* without an id the repositories are visited one after the other
reindex_repo(by_id) ==
    /\ BagCardinality(ops) < MaxOps
    /\ IF repos = EmptyBag
       THEN /\ ev' = Event("reindex", "none", "denied", None, {}, "", NoRepositories, NoProgress)
            /\ ops' = ops
       ELSE IF by_id
       THEN /\ ev' = Event("reindex", "none", "denied", None, {}, "", NoRepositoryFound, NoProgress)
            /\ ops' = ops
       ELSE \E r \in Identities :
            /\ ops' = ops (+) SetToBag({Op("reindex", r, Identities \ {r}, "precheck")})
            /\ ev' = Event("reindex", r, "visit", None, {}, "", Reindexing, NoProgress)
    /\ UNCHANGED <<repos, posts>>
    /\ UNCHANGED <<governorVars, v2Vars, serviceVars, resourceVars>>

\* the message add_repo ends with, given what index_repository returned
AddRepoMessage(result) ==
    IF result # "completed" THEN RepositoryRemoved ELSE RepositoryIndexed

\* the registry after add_repo got `result` from index_repository
RegistryAfter(r, result) == IF result # "completed" THEN Deleted(r) ELSE repos

\* index_repository (or check_indexing_status, called on its own) returns
\* `result` to the operation, which runs on to its end or to its next await:
\* add_repo deletes the row unless the result is 'completed'; reindex visits
\* its next repository
Return(op, step, info, result, progress) ==
    LET reads == op.reads \cup {info.status} IN
    \/ /\ op.cmd = "add_repo"
       /\ ops' = IF result # "completed" THEN AfterWrite(OpEnded(op)) ELSE OpEnded(op)
       /\ repos' = RegistryAfter(op.repo, result)
       /\ ev' = Event("add_repo", op.repo, step, info, reads, result,
                      AddRepoMessage(result), progress)
    \/ /\ op.cmd = "reindex"
       /\ IF op.todo = {}
          THEN ops' = OpEnded(op)
          ELSE \E r \in op.todo :
                 ops' = OpMoved(op, Op("reindex", r, op.todo \ {r}, "precheck"))
       /\ repos' = repos
       /\ ev' = Event("reindex", op.repo, step, info, reads, result,
                      IF op.todo = {} THEN "" ELSE Reindexing, progress)
    \/ /\ op.cmd = "check_indexing_status"
       /\ ops' = OpEnded(op)
       /\ repos' = repos
       /\ ev' = Event(op.cmd, op.repo, step, info, reads, result, "", progress)

\* an exception leaves index_repository: add_repo and reindex_repo catch it,
\* report it and end; the registry is not touched
Raise(op, step) ==
    /\ ops' = OpEnded(op)
    /\ repos' = repos
    /\ ev' = Event(op.cmd, op.repo, step, None, op.reads, "",
                   IF op.cmd = "reindex" THEN UnexpectedReindexError ELSE UnexpectedError,
                   NoProgress)

\* faulty variant of PreCheckResult: a repository that is being processed is
\* submitted again
PreCheckResult_completed_only(info) ==
    IF info = None THEN "failed"
    ELSE IF info.status = "completed" THEN "completed"
    ELSE ""

\* what index_repository returns right after its status read; "" when it
\* goes on to start the indexing
PreCheckResult(info) ==
    IF info = None THEN "failed"
    ELSE IF info.status = "completed" THEN "completed"
    ELSE IF info.status = "processing" THEN "processing"
    ELSE ""

\* index_repository up to "Starting indexing process...": the status read and
\* the early returns
PreCheck(op, response) ==
    LET info == get_repository_status(response)
        result == PreCheckResult(info)
    IN  /\ op \in RunningOps /\ op.pc = "precheck"
        /\ IF result = ""
           THEN /\ ops' = OpMoved(op, [op EXCEPT !.pc = "start",
                                                !.reads = @ \cup {info.status}])
                /\ repos' = repos
                /\ ev' = Event(op.cmd, op.repo, "precheck", info,
                               op.reads \cup {info.status}, "", "", NoProgress)
           ELSE Return(op, "precheck", info, result, NoProgress)
        /\ UNCHANGED posts
        /\ UNCHANGED <<governorVars, v2Vars, serviceVars, resourceVars>>

\* index_repository from "Starting indexing process..." on: the session, the
\* loop over range(CONFIG['API_RETRIES']) and the POST. `outcome` is how the
\* POST attempts end: "started" the indexing was accepted, "failed" the
\* attempts were used up or an unexpected exception was raised.
Submit(op, outcome) ==
    /\ op \in RunningOps /\ op.pc = "start"
    /\ IF RangeRaises(ConfigValueType)
       THEN /\ Raise(op, "submit")
            /\ posts' = posts
       ELSE /\ posts[op.repo] < MaxPosts
            /\ posts' = [posts EXCEPT ![op.repo] = @ + 1]
            /\ IF outcome = "started"
               THEN /\ ops' = OpMoved(op, [op EXCEPT !.pc = "polling"])
                    /\ repos' = repos
                    /\ ev' = Event(op.cmd, op.repo, "submit", None, op.reads, "", "",
                                   NoProgress)
               ELSE Return(op, "submit", None, "failed", NoProgress)
    /\ UNCHANGED <<governorVars, v2Vars, serviceVars, resourceVars>>

Max(a, b) == IF a >= b THEN a ELSE b

\* status_info['filesProcessed'] / max(status_info['numFiles'], 1) * 100
Progress(info) ==
    [num |-> info.filesProcessed * 100, den |-> Max(info.numFiles, 1)]

\* faulty variant of PollResult: a status the loop does not know ends it
PollResult_unknown_fails(info, raises) ==
    IF raises THEN "failed"
    ELSE IF info = None THEN "failed"
    ELSE IF info.status = "completed" THEN "completed"
    ELSE IF info.status \in {"submitted", "cloning", "processing"} THEN ""
    ELSE "failed"

\* what one iteration of the loop of check_indexing_status returns; "" when
\* it sleeps and polls again. `raises`: an exception was raised in the
\* iteration (by status_message.edit, for one).
PollResult(info, raises) ==
    IF raises THEN "failed"
    ELSE IF info = None THEN "failed"
    ELSE IF info.status = "completed" THEN "completed"
    ELSE IF info.status = "failed" THEN "failed"
    ELSE ""

\* the progress the iteration displays
PollProgress(info, raises) ==
    IF ~raises /\ info # None /\ info.status \in {"submitted", "cloning", "processing"}
    THEN Progress(info)
    ELSE NoProgress

\* faulty variant of Poll: the loop gives up after its first poll
Poll_gives_up(op, response, raises) ==
    LET info == get_repository_status(response)
        result == IF op.polls >= 1 THEN "failed" ELSE PollResult(info, raises)
    IN  /\ op \in RunningOps /\ op.pc = "polling"
        /\ op.polls < MaxPolls
        /\ IF result = ""
           THEN /\ ops' = OpMoved(op, [op EXCEPT !.polls = @ + 1,
                                                !.reads = @ \cup {info.status}])
                /\ repos' = repos
                /\ ev' = Event(op.cmd, op.repo, "poll", info,
                               op.reads \cup {info.status}, "", "",
                               PollProgress(info, raises))
           ELSE Return(op, IF raises THEN "raised" ELSE "poll", info, result,
                       NoProgress)
        /\ UNCHANGED posts
        /\ UNCHANGED <<governorVars, v2Vars, serviceVars, resourceVars>>

\* one iteration of the loop of check_indexing_status: the status read, the
\* edit of the status message, and the return or the sleep of 60 seconds; the
\* step is "raised" when the iteration ended in the except clause
Poll(op, response, raises) ==
    LET info == get_repository_status(response)
        result == PollResult(info, raises)
    IN  /\ op \in RunningOps /\ op.pc = "polling"
        /\ op.polls < MaxPolls
        /\ IF result = ""
           THEN /\ ops' = OpMoved(op, [op EXCEPT !.polls = @ + 1,
                                                !.reads = @ \cup {info.status}])
                /\ repos' = repos
                /\ ev' = Event(op.cmd, op.repo, "poll", info,
                               op.reads \cup {info.status}, "", "",
                               PollProgress(info, raises))
           ELSE Return(op, IF raises THEN "raised" ELSE "poll", info, result,
                       NoProgress)
        /\ UNCHANGED posts
        /\ UNCHANGED <<governorVars, v2Vars, serviceVars, resourceVars>>

\* check_indexing_status(ctx, status_message, repo) called on its own
check_indexing_status(r) ==
    /\ BagCardinality(ops) < MaxOps
    /\ ops' = ops (+) SetToBag({Op("check_indexing_status", r, {}, "polling")})
    /\ ev' = Event("check_indexing_status", r, "call", None, {}, "", "", NoProgress)
    /\ UNCHANGED <<repos, posts>>
    /\ UNCHANGED <<governorVars, v2Vars, serviceVars, resourceVars>>

----------------------------------------------------------------------------
(* Error reporting of v1-stable *)

\* the error messages reported
ErrorMessages == {"e1", "e2"}

\* time_since_last_error.total_seconds() < 300
DuplicateWindow == 300

\* reports are made every ReportGap seconds of the first MaxReportSec seconds
ReportGap == 100
MaxReportSec == 400

\* report_error.last_error_time = None, report_error.last_error_message = None
InitReports ==
    /\ last_error_time = Null
    /\ last_error_message = Null
    /\ notified = [m \in ErrorMessages |-> Null]
    /\ notice = Null

\* "this error was recently reported": the message is the last one reported
\* and that report is less than 300 seconds old
RecentlyReported(error_message, current_time) ==
    /\ last_error_time # Null /\ last_error_message # Null
    /\ \E t \in last_error_time : current_time - t < DuplicateWindow
    /\ last_error_message = {error_message}

\* report_error(error_message). The embed goes to the error channel and to
\* the bot owner; a send that raises is logged: `delivered` tells whether one
\* of them reached the operator.
report_error(error_message, delivered) ==
    /\ IF RecentlyReported(error_message, now)
       THEN /\ notice' = Null
            /\ UNCHANGED <<last_error_time, last_error_message, notified>>
       ELSE /\ last_error_time' = {now}
            /\ last_error_message' = {error_message}
            /\ notice' = IF delivered THEN {error_message} ELSE Null
            /\ notified' = IF delivered
                           THEN [notified EXCEPT ![error_message] = {now}]
                           ELSE notified
    /\ UNCHANGED <<whitelist, verdict, secrets_file, process>>
    /\ UNCHANGED <<governorVars, indexVars, resourceVars>>

\* every sequence of reports over the first seconds
NextReports ==
    \/ \E m \in ErrorMessages, delivered \in BOOLEAN : report_error(m, delivered)
    \/ Tick(ReportGap, MaxReportSec)

----------------------------------------------------------------------------
(* Access control of v1-stable *)

\* class UserRole(Enum): the value of each member, letter by letter
UserRole ==
    [USER  |-> <<"u", "s", "e", "r">>,
     ADMIN |-> <<"a", "d", "m", "i", "n">>,
     OWNER |-> <<"o", "w", "n", "e", "r">>]

Roles == DOMAIN UserRole

Alphabet ==
    <<"a", "b", "c", "d", "e", "f", "g", "h", "i", "j", "k", "l", "m",
      "n", "o", "p", "q", "r", "s", "t", "u", "v", "w", "x", "y", "z">>

\* ord(c) of a lower-case letter, up to a shift
ord(c) == CHOOSE i \in DOMAIN Alphabet : Alphabet[i] = c

\* a < b of two str: the first differing letter decides, a proper prefix is
\* less
RECURSIVE StrLess(_, _)
StrLess(a, b) ==
    IF b = <<>> THEN FALSE
    ELSE IF a = <<>> THEN TRUE
    ELSE IF Head(a) = Head(b) THEN StrLess(Tail(a), Tail(b))
    ELSE ord(Head(a)) < ord(Head(b))

\* user_role.value >= role.value
ValueGE(user_role, role) == ~StrLess(UserRole[user_role], UserRole[role])

\* the commands that read and change the whitelist, with the role that the
\* decorator of each names
RequiredRole ==
    [listwhitelist   |-> "USER",
     addwhitelist    |-> "ADMIN",
     removewhitelist |-> "ADMIN",
     addadmin        |-> "OWNER",
     removeadmin     |-> "OWNER"]

Commands == DOMAIN RequiredRole

\* "You don't have permission to use this command." of on_command_error
PermissionDenied == "You don't have permission to use this command."

Verdict(u, cmd, target, outcome, message) ==
    [user |-> u, cmd |-> cmd, target |-> target, outcome |-> outcome,
     message |-> message]

NoVerdict == Verdict(0, "none", 0, "", "")

\* setup_bot: INSERT OR REPLACE INTO whitelist (BOT_OWNER_ID, 'owner')
InitWhitelist ==
    /\ whitelist = [u \in {Owner} |-> "OWNER"]
    /\ verdict = NoVerdict

\* predicate(ctx) of is_whitelisted(role)
predicate(u, role) ==
    IF IsOwner(u) THEN TRUE
    ELSE IF u \notin DOMAIN whitelist THEN FALSE
    ELSE ValueGE(whitelist[u], role)

\* INSERT OR REPLACE INTO whitelist (user_id, role)
Replaced(target, role) ==
    [x \in DOMAIN whitelist \cup {target} |-> IF x = target THEN role ELSE whitelist[x]]

\* the whitelist after the body of the command has run
WhitelistAfter(cmd, target) ==
    CASE cmd = "listwhitelist" -> whitelist
      [] cmd = "addwhitelist" -> Replaced(target, "USER")
      [] cmd = "removewhitelist" -> [x \in DOMAIN whitelist \ {target} |-> whitelist[x]]
      [] cmd = "addadmin" -> Replaced(target, "ADMIN")
      [] cmd = "removeadmin" ->
            IF target \in DOMAIN whitelist /\ whitelist[target] = "ADMIN"
            THEN Replaced(target, "USER")
            ELSE whitelist

\* a user invokes a command: the check of its decorator, then its body or,
\* on CheckFailure, the answer of on_command_error
invoke(u, cmd, target) ==
    /\ IF predicate(u, RequiredRole[cmd])
       THEN /\ whitelist' = WhitelistAfter(cmd, target)
            /\ verdict' = Verdict(u, cmd, target, "executed", "")
       ELSE /\ whitelist' = whitelist
            /\ verdict' = Verdict(u, cmd, target, "denied", PermissionDenied)
    /\ UNCHANGED <<last_error_time, last_error_message, notified, notice,
                   secrets_file, process>>
    /\ UNCHANGED <<governorVars, indexVars, resourceVars>>

\* every user with every command on every user
NextAccess == \E u \in Users, cmd \in Commands, target \in Users : invoke(u, cmd, target)

----------------------------------------------------------------------------
(* Startup of v1-stable *)

\* required_keys of load_secrets
required_keys == {"DISCORD_BOT_TOKEN", "GREPTILE_API_KEY", "GITHUB_TOKEN", "BOT_OWNER_ID"}

\* secrets.yaml as open() and yaml.safe_load find it: no file, a file that is
\* not YAML, an empty document (safe_load returns None), or a mapping in which
\* each required key is absent, present without a value ("KEY:") or present
\* with one
SecretsFile(kind, keys) == [kind |-> kind, keys |-> keys]

NoKeys == [k \in required_keys |-> "absent"]

SecretsFiles ==
    {SecretsFile(kind, NoKeys) : kind \in {"missing", "unparsable", "empty"}}
        \cup {SecretsFile("mapping", keys) :
                 keys \in [required_keys -> {"absent", "null", "value"}]}

\* how a step of the startup ends: sys.exit(code) after print(message), or
\* by going on
Exit(code, message) == [kind |-> "exit", code |-> code, message |-> message]
Returned == [kind |-> "return", code |-> 0, message |-> ""]

\* faulty variant of load_secrets: a missing file ends the process with
\* exit status 0
load_secrets_exit_zero(file) ==
    IF file.kind = "missing"
    THEN Exit(0, "Error: secrets.yaml file not found")
    ELSE IF file.kind = "unparsable"
    THEN Exit(1, "Error parsing secrets.yaml")
    ELSE IF file.kind = "empty"
    THEN Exit(1, "Unexpected error when loading secrets.yaml")
    ELSE IF \E key \in required_keys : file.keys[key] = "absent"
    THEN Exit(1, "Error: Missing required key")
    ELSE Returned

\* load_secrets(): FileNotFoundError, yaml.YAMLError, the TypeError of
\* `key not in None` (except Exception) and the KeyError of a missing key all
\* print and sys.exit(1)
load_secrets(file) ==
    IF file.kind = "missing"
    THEN Exit(1, "Error: secrets.yaml file not found")
    ELSE IF file.kind = "unparsable"
    THEN Exit(1, "Error parsing secrets.yaml")
    ELSE IF file.kind = "empty"
    THEN Exit(1, "Unexpected error when loading secrets.yaml")
    ELSE IF \E key \in required_keys : file.keys[key] = "absent"
    THEN Exit(1, "Error: Missing required key")
    ELSE Returned

\* the process: its phase, its exit status (Null while it runs) and what it
\* printed
Process(phase, code, output) == [phase |-> phase, code |-> code, output |-> output]

Starting == Process("starting", Null, "")
Exited(code, output) == Process("exited", {code}, output)

\* the file was complete and the bot serves commands
InitServing ==
    /\ secrets_file = SecretsFile("mapping", [k \in required_keys |-> "value"])
    /\ process = Process("serving", Null, "")

InitService == InitReports /\ InitWhitelist /\ InitServing

\* a process starts with whatever file is there
InitStartup ==
    /\ secrets_file \in SecretsFiles
    /\ process = Starting

\* the module-level block "Load tokens and API keys": load_secrets(), then
\* the four secrets[...] reads, whose exception prints and exits as well
startup ==
    /\ process.phase = "starting"
    /\ LET r == load_secrets(secrets_file) IN
       process' = IF r.kind = "exit" THEN Exited(r.code, r.message)
                  ELSE IF \E key \in required_keys : secrets_file.keys[key] = "absent"
                  THEN Exited(1, "Error setting up configuration")
                  ELSE Process("loaded", Null, "")
    /\ UNCHANGED <<last_error_time, last_error_message, notified, notice,
                   whitelist, verdict, secrets_file>>
    /\ UNCHANGED <<governorVars, indexVars, resourceVars>>

\* asyncio.run(setup_bot()): the tables, the row of the owner, the config
setup_bot ==
    /\ process.phase = "loaded"
    /\ process' = Process("set_up", Null, "")
    /\ whitelist' = IF secrets_file.keys["BOT_OWNER_ID"] = "value"
                    THEN Replaced(Owner, "OWNER")
                    ELSE whitelist
    /\ UNCHANGED <<last_error_time, last_error_message, notified, notice,
                   verdict, secrets_file>>
    /\ UNCHANGED <<governorVars, indexVars, resourceVars>>

\* bot.run(TOKEN): the login; a token that is None raises out of bot.run
bot_run ==
    /\ process.phase = "set_up"
    /\ process' = IF secrets_file.keys["DISCORD_BOT_TOKEN"] = "value"
                  THEN Process("connected", Null, "")
                  ELSE Exited(1, "Traceback")
    /\ UNCHANGED <<last_error_time, last_error_message, notified, notice,
                   whitelist, verdict, secrets_file>>
    /\ UNCHANGED <<governorVars, indexVars, resourceVars>>

\* the connected bot takes its first command
serve ==
    /\ process.phase = "connected"
    /\ process' = Process("serving", Null, "")
    /\ UNCHANGED <<last_error_time, last_error_message, notified, notice,
                   whitelist, verdict, secrets_file>>
    /\ UNCHANGED <<governorVars, indexVars, resourceVars>>

NextStartup == startup \/ setup_bot \/ bot_run \/ serve

----------------------------------------------------------------------------
(* The connection pool: DatabasePool of v1-stable and of v2-dev *)

\* DatabasePool(..., max_connections=5)
DefaultConnections == 5

\* the pool sizes and the number of commands running at once
MaxConnections == 2
MaxClients == 2

Clients == 1..MaxClients

\* the scoped acquisitions a command of v1-stable makes, one after the other:
\* the check of is_whitelisted, then get_repos for listrepos; for addrepo the
\* transaction of the INSERT and, when indexing failed, that of the DELETE
Scopes == [listrepos |-> 2, addrepo |-> 3]

PoolCommands == DOMAIN Scopes

\* faulty variant of OpensInside: the DELETE transaction of add_repo is opened
\* inside the INSERT transaction
OpensInside_insert(cmd, scope) == cmd = "addrepo" /\ scope = 2

\* the next scope of the command is opened inside this one: never, every
\* `async with` block is closed before the next acquire
OpensInside(cmd, scope) == FALSE

\* a command: the scope it is in, whether it waits in _pool.get() or runs the
\* body of the scope, the connections it holds, and how its last scope ended
Client(cmd, scope, pc, held, exit) ==
    [cmd |-> cmd, scope |-> scope, pc |-> pc, held |-> held, exit |-> exit]

Idle(exit) == Client("none", 0, "idle", 0, exit)

\* init(): max_connections connections are put in the queue
InitPool ==
    /\ max_connections = DefaultConnections
    /\ pool = max_connections
    /\ clients = [c \in Clients |-> Idle("")]

\* the same for every small pool size
InitPools ==
    /\ max_connections \in 1..MaxConnections
    /\ pool = max_connections
    /\ clients = [c \in Clients |-> Idle("")]

\* a command begins and reaches its first acquire()
begin(c, cmd) ==
    /\ clients[c].pc = "idle"
    /\ clients' = [clients EXCEPT ![c] = Client(cmd, 1, "waiting", 0, "")]
    /\ UNCHANGED <<max_connections, pool, config_store, paging, upstream>>
    /\ UNCHANGED <<governorVars, indexVars, serviceVars>>

\* conn = await self._pool.get(): returns once the queue is not empty
get(c) ==
    /\ clients[c].pc = "waiting"
    /\ pool > 0
    /\ pool' = pool - 1
    /\ clients' = [clients EXCEPT ![c].pc = "holding", ![c].held = @ + 1]
    /\ UNCHANGED <<max_connections, config_store, paging, upstream>>
    /\ UNCHANGED <<governorVars, indexVars, serviceVars>>

\* faulty variant of Released: the connection is put back on return only
Released_on_return_only(cl, how) == IF how = "raise" THEN 0 ELSE cl.held

\* finally: await self._pool.put(conn), however the body ended
Released(cl, how) == cl.held

\* the body of the scope ends, by returning or by raising (db_transaction
\* rolls back and raises again). The command goes on to its next scope when
\* the body returned and `more` scopes follow; it ends otherwise.
exit_scope(c, how, more) ==
    LET cl == clients[c]
        goes_on == how = "return" /\ more /\ cl.scope < Scopes[cl.cmd]
    IN  /\ cl.pc = "holding"
        /\ IF goes_on /\ OpensInside(cl.cmd, cl.scope)
           THEN /\ pool' = pool
                /\ clients' = [clients EXCEPT ![c].scope = @ + 1, ![c].pc = "waiting",
                                              ![c].exit = how]
           ELSE /\ pool' = pool + Released(cl, how)
                /\ clients' = [clients EXCEPT ![c] =
                                  IF goes_on
                                  THEN Client(cl.cmd, cl.scope + 1, "waiting", 0, how)
                                  ELSE Idle(how)]
        /\ UNCHANGED <<max_connections, config_store, paging, upstream>>
        /\ UNCHANGED <<governorVars, indexVars, serviceVars>>

\* the body of client c terminates
Exits(c) == \E how \in {"return", "raise"}, more \in BOOLEAN : exit_scope(c, how, more)

\* the commands in every interleaving
NextPool ==
    \/ \E c \in Clients, cmd \in PoolCommands : begin(c, cmd)
    \/ \E c \in Clients : get(c)
    \/ \E c \in Clients : Exits(c)

\* the connections held by the clients 1..n
RECURSIVE Held(_)
Held(n) == IF n = 0 THEN 0 ELSE clients[n].held + Held(n - 1)

----------------------------------------------------------------------------
(* The config table of v2-dev and the limits of QueryService *)

MAX_SEARCHES_PER_DAY == <<"MAX", "SEARCHES", "PER", "DAY">>

\* the per-class daily maxima in the config table
V2LimitKeys == {MAX_QUERIES_PER_DAY, MAX_SMART_QUERIES_PER_DAY, MAX_SEARCHES_PER_DAY}

\* get_config(key, default) of setup: the defaults 5, 1 and 10
V2StoredDefault(key) ==
    IF key = MAX_QUERIES_PER_DAY THEN default_limits[max_queries_per_day]
    ELSE IF key = MAX_SMART_QUERIES_PER_DAY THEN default_limits[max_smart_queries_per_day]
    ELSE default_limits[max_searches_per_day]

\* the table holds the defaults, and setup has passed them to set_query_limits
InitConfigStore == config_store = [key \in V2LimitKeys |-> V2StoredDefault(key)]

\* no quota decision has been made
NoArg == [version |-> "none", user |-> 0, type |-> <<>>, count |-> 0]

\* ConfigService.set_config(key, value): INSERT ... ON CONFLICT DO UPDATE.
\* The attributes of QueryService are left as setup set them.
v2_set_config(key, value) ==
    /\ config_store' = [config_store EXCEPT ![key] = value]
    /\ qarg' = NoArg
    /\ qret' = FALSE
    /\ UNCHANGED <<now, active_queries, last_query_time, user_queries, CONFIG, tasks,
                   reply, api_calls, query_limits>>
    /\ UNCHANGED <<max_connections, pool, clients, paging, upstream>>
    /\ UNCHANGED <<indexVars, serviceVars>>

----------------------------------------------------------------------------
(* The result pages of search, v1-stable *)

\* if len(current_embed.fields) >= 25
FieldLimit == 25

\* the longest result list
MaxResults == 26

\* the field added after the loop
ResponseTime == 0

\* the locals of the loop: the number of results, the results taken so far,
\* embeds and current_embed as the lists of their fields (a result is its
\* position in the list)
Paging(phase, results, i, embeds, current_embed) ==
    [phase |-> phase, results |-> results, i |-> i, embeds |-> embeds,
     current_embed |-> current_embed]

InitPaging == paging = Paging("idle", 0, 0, <<>>, <<>>)

\* results = await make_api_call(...) returned a non-empty list
search_results(n) ==
    /\ paging.phase = "idle"
    /\ paging' = Paging("loop", n, 0, <<>>, <<>>)
    /\ UNCHANGED <<max_connections, pool, clients, config_store, upstream>>
    /\ UNCHANGED <<governorVars, indexVars, serviceVars>>

\* one iteration of `for i, result in enumerate(results, 1)`
add_field ==
    LET filled == Append(paging.current_embed, paging.i + 1) IN
    /\ paging.phase = "loop" /\ paging.i < paging.results
    /\ paging' = IF Len(filled) >= FieldLimit
                 THEN [paging EXCEPT !.i = @ + 1, !.embeds = Append(@, filled),
                                     !.current_embed = <<>>]
                 ELSE [paging EXCEPT !.i = @ + 1, !.current_embed = filled]
    /\ UNCHANGED <<max_connections, pool, clients, config_store, upstream>>
    /\ UNCHANGED <<governorVars, indexVars, serviceVars>>

\* after the loop: the embed in progress is kept if it has fields, and
\* "Response Time" is added to embeds[-1]
add_response_time ==
    LET all == IF paging.current_embed # <<>>
               THEN Append(paging.embeds, paging.current_embed)
               ELSE paging.embeds
    IN  /\ paging.phase = "loop" /\ paging.i = paging.results
        /\ paging' = [paging EXCEPT !.phase = "sent",
                         !.embeds = [all EXCEPT ![Len(all)] = Append(@, ResponseTime)]]
        /\ UNCHANGED <<max_connections, pool, clients, config_store, upstream>>
        /\ UNCHANGED <<governorVars, indexVars, serviceVars>>

NextPaging ==
    \/ \E n \in 1..MaxResults : search_results(n)
    \/ add_field
    \/ add_response_time

\* GET /repositories/{id} has not settled on a status: it may answer anything
InitUpstream == upstream = [r \in Repos |-> Null]

\* the statuses on which the indexing of a repository ends upstream
TerminalStatuses == {"completed", "failed"}

\* from now on every status read of repository r succeeds and returns `status`
settle(r, status) ==
    /\ upstream[r] = Null
    /\ upstream' = [upstream EXCEPT ![r] = {status}]
    /\ UNCHANGED <<max_connections, pool, clients, config_store, paging>>
    /\ UNCHANGED <<governorVars, indexVars, serviceVars>>

\* `response` is an answer that a status read of repository r can get
Answers(r, response) ==
    upstream[r] = Null \/ (response # CommError /\ response.status = upstream[r])

InitResources == InitPool /\ InitConfigStore /\ InitPaging /\ InitUpstream

----------------------------------------------------------------------------
(* Specifications of the governor *)

InitGovernor ==
    /\ now = SecondsPerDay
    /\ active_queries = {}
    /\ last_query_time = [u \in Users |-> 0]
    /\ user_queries = [u \in Users |-> [q \in QueryTypes |-> <<>>]]
    /\ CONFIG = default_config
    /\ tasks = EmptyBag
    /\ reply = NoReply
    /\ api_calls = <<>>
    /\ query_limits = default_limits
    /\ qarg = NoArg
    /\ qret = FALSE

\* the state once setup_bot has run in a process that found its secrets
Init == InitGovernor /\ InitIndex /\ InitService /\ InitResources

BeginOutcomes == {"send_raises", "no_repos", "dispatched"}
FinishOutcomes == {"error", "empty", "send_raises", "log_raises", "ok"}

TaskStep ==
    \/ \E t \in Running, outcome \in BeginOutcomes : Begin(t, outcome)
    \/ \E t \in Running, outcome \in FinishOutcomes : Finish(t, outcome)

\* two users in every channel, one of them with every command, second by
\* second over the first seconds of a day
Next ==
    \/ \E u \in BroadUsers, ch \in Channels : search(u, ch)
    \/ \E u \in DayUsers, ch \in Channels, genius \in BOOLEAN :
            process_query(u, ch, genius)
    \/ TaskStep
    \/ \E d \in 1..MaxStep : Tick(d, FineSec)

Spec == Init /\ [][Next]_vars

\* one user, cooldown by cooldown, over several days
NextDaily ==
    \/ \E u \in DayUsers, ch \in DayChannels : search(u, ch)
    \/ \E u \in DayUsers, ch \in DayChannels : process_query(u, ch, FALSE)
    \/ TaskStep
    \/ Tick(COOLDOWN_TIME, MaxSec)
    \/ NextDay

SpecDay == Init /\ [][NextDaily]_vars

\* the owner, cooldown by cooldown, over several days
NextOwner ==
    \/ \E ch \in DayChannels : search(Owner, ch)
    \/ \E ch \in DayChannels : process_query(Owner, ch, FALSE)
    \/ TaskStep
    \/ Tick(COOLDOWN_TIME, MaxSec)
    \/ NextDay

SpecOwner == Init /\ [][NextOwner]_vars

\* two users other than the owner in one channel, over one cooldown
NextPair ==
    \/ \E u \in BroadUsers, ch \in DayChannels : search(u, ch)
    \/ TaskStep
    \/ Tick(COOLDOWN_TIME, COOLDOWN_TIME)

SpecPair == Init /\ [][NextPair]_vars

----------------------------------------------------------------------------
(* Specification of the quota lookup as a function of its inputs *)

\* stored daily maxima: any value an operator may have put in the store
StoredLimits == 1..MaxLimit

\* user_queries with `count` records of today's date for one user and type
WithRecords(u, query_type, count) ==
    [user_queries EXCEPT ![u][query_type] = [i \in 1..count |-> Today]]

InitQuota ==
    /\ now = SecondsPerDay
    /\ active_queries = {}
    /\ last_query_time = [u \in Users |-> 0]
    /\ user_queries = [u \in Users |-> [q \in QueryTypes |-> <<>>]]
    /\ CONFIG \in [DOMAIN default_config -> StoredLimits]
    /\ tasks = EmptyBag
    /\ reply = NoReply
    /\ api_calls = <<>>
    /\ query_limits \in {[default_limits EXCEPT ![max_searches_per_day] = n] :
                            n \in StoredLimits \cup {default_limits[max_searches_per_day]}}
    /\ qarg = NoArg
    /\ qret = FALSE
    /\ InitIndex
    /\ InitService
    /\ InitResources

\* v1-stable: await can_make_query(user_id, query_type)
CallV1(u, query_type, count) ==
    /\ qarg' = [version |-> "v1", user |-> u, type |-> query_type, count |-> count]
    /\ qret' = can_make_query(WithRecords(u, query_type, count), CONFIG, u,
                              query_type, Today)
    /\ UNCHANGED <<now, active_queries, last_query_time, user_queries, CONFIG,
                   tasks, reply, api_calls, query_limits>>
    /\ UNCHANGED <<indexVars, serviceVars, resourceVars>>

\* v2-dev: await self.query_service.can_make_query(user_id, query_type)
CallV2(u, query_type, count) ==
    /\ qarg' = [version |-> "v2", user |-> u, type |-> query_type, count |-> count]
    /\ qret' = v2_can_make_query(query_limits, u, query_type, count)
    /\ UNCHANGED <<now, active_queries, last_query_time, user_queries, CONFIG,
                   tasks, reply, api_calls, query_limits>>
    /\ UNCHANGED <<indexVars, serviceVars, resourceVars>>

\* the users whose quota is looked up: the owner and one other user
QuotaUsers == {Owner} \cup DayUsers

\* the keys an administrator stores: the documented ones and the ones
\* can_make_query reads for the two classes that have a documented key
ConfigKeys == DOMAIN default_config \cup {ConfigKey(QUERIES), ConfigKey(SMART_QUERIES)}

\* v1-stable: ~setconfig <key> <value>, update_config(key, value)
set_config(key, value) ==
    /\ CONFIG' = [k \in DOMAIN CONFIG \cup {key} |-> IF k = key THEN value ELSE CONFIG[k]]
    /\ qarg' = NoArg
    /\ qret' = FALSE
    /\ UNCHANGED <<now, active_queries, last_query_time, user_queries, tasks, reply,
                   api_calls, query_limits>>
    /\ UNCHANGED <<indexVars, serviceVars, resourceVars>>

NextQuota ==
    \/ \E key \in ConfigKeys, value \in StoredLimits : set_config(key, value)
    \/ \E u \in QuotaUsers, q \in QueryTypes, n \in 0..MaxCount : CallV1(u, q, n)
    \/ \E u \in QuotaUsers, q \in QueryTypes, n \in 0..MaxCount : CallV2(u, q, n)

SpecQuota == InitQuota /\ [][NextQuota]_vars

----------------------------------------------------------------------------
(* Specifications of repository indexing, v1-stable *)

\* ~removerepos: DELETE FROM repos
remove_repos ==
    /\ repos' = EmptyBag
    /\ ops' = AfterWrite(ops)
    /\ ev' = Event("remove_repos", "none", "removed", None, {}, "", "", NoProgress)
    /\ UNCHANGED posts
    /\ UNCHANGED <<governorVars, v2Vars, serviceVars, resourceVars>>

\* what GET /repositories/{id} answers to a status read
StatusResponses == PlainResponses \cup {CommError}

IndexStep ==
    \/ \E op \in RunningOps : AddRepoInsert(op)
    \/ \E op \in RunningOps, response \in StatusResponses : PreCheck(op, response)
    \/ \E op \in RunningOps, outcome \in {"started", "failed"} : Submit(op, outcome)

\* the commands of the administrators, in every interleaving
NextIndex ==
    \/ \E r \in Repos : add_repo(r)
    \/ \E by_id \in BOOLEAN : reindex_repo(by_id)
    \/ remove_repos
    \/ IndexStep

SpecIndex == Init /\ [][NextIndex]_vars

\* check_indexing_status applied to every sequence of status responses, and
\* the commands, one operation at a time
NextPoll ==
    \/ \E r \in Repos : ops = EmptyBag /\ add_repo(r)
    \/ \E by_id \in BOOLEAN : ops = EmptyBag /\ reindex_repo(by_id)
    \/ IndexStep
    \/ \E r \in Repos : ops = EmptyBag /\ check_indexing_status(r)
    \/ \E op \in RunningOps, response \in StatusResponses \cup CountedResponses,
          raises \in BOOLEAN : Poll(op, response, raises)

SpecPoll == Init /\ [][NextPoll]_vars

\* one iteration of the loop of a running check_indexing_status
PollStep ==
    \E op \in RunningOps, response \in StatusResponses, raises \in BOOLEAN :
        Answers(op.repo, response) /\ Poll(op, response, raises)

\* check_indexing_status against an upstream that settles
NextPollLive ==
    \/ \E r \in Repos : ops = EmptyBag /\ check_indexing_status(r)
    \/ \E r \in Repos, status \in TerminalStatuses : settle(r, status)
    \/ PollStep

\* the event loop resumes the polling task when its status read or its sleep
\* of 60 seconds is over: an iteration that can run does run
SpecPollLive == Init /\ [][NextPollLive]_vars /\ WF_vars(PollStep)

----------------------------------------------------------------------------
(* Repository indexing, v2-dev: AdminCommands and RepositoryService *)

V2RepositoryAdded == "Repository Added"
V2UnexpectedError == "An unexpected error occurred"
V2ReindexingStatus == "Reindexing Status"

\* faulty variant of v2_add_repo: the row is inserted with a last_indexed_at
v2_add_repo_stamped(r) ==
    /\ BagCardinality(ops) < MaxOps
    /\ IF Registered(r)
       THEN /\ ev' = Event("v2_add_repo", r, "denied", None, {}, "", V2UnexpectedError,
                           NoProgress)
            /\ UNCHANGED <<repos, ops>>
       ELSE /\ repos' = Inserted(r)
            /\ ops' = ops (+) SetToBag({Op("v2_add_repo", r, {}, "v2_index")})
            /\ ev' = Event("v2_add_repo", r, "registered", None, {}, "", "", NoProgress)
    /\ last_indexed_at' = IF Registered(r) THEN last_indexed_at
                          ELSE [last_indexed_at EXCEPT ![r] = {now}]
    /\ first_poll' = IF Registered(r) THEN first_poll ELSE [first_poll EXCEPT ![r] = Null]
    /\ UNCHANGED posts
    /\ UNCHANGED <<governorVars, serviceVars, resourceVars>>

\* AdminCommands.add_repo up to the POST: RepositoryService.add_repository
\* inserts the row; UNIQUE(remote, owner, name, branch) makes the INSERT of a
\* registered repository fail, which ends the command with an error
v2_add_repo(r) ==
    /\ BagCardinality(ops) < MaxOps
    /\ IF Registered(r)
       THEN /\ ev' = Event("v2_add_repo", r, "denied", None, {}, "", V2UnexpectedError,
                           NoProgress)
            /\ UNCHANGED <<repos, ops>>
       ELSE /\ repos' = Inserted(r)
            /\ ops' = ops (+) SetToBag({Op("v2_add_repo", r, {}, "v2_index")})
            /\ ev' = Event("v2_add_repo", r, "registered", None, {}, "", "", NoProgress)
    /\ last_indexed_at' = IF Registered(r) THEN last_indexed_at
                          ELSE [last_indexed_at EXCEPT ![r] = Null]
    /\ first_poll' = IF Registered(r) THEN first_poll ELSE [first_poll EXCEPT ![r] = Null]
    /\ UNCHANGED posts
    /\ UNCHANGED <<governorVars, serviceVars, resourceVars>>

\* AdminCommands.reindex_repo up to the first POST: get_all_repositories
v2_reindex_repo ==
    /\ BagCardinality(ops) < MaxOps
    /\ IF repos = EmptyBag
       THEN /\ ev' = Event("v2_reindex", "none", "denied", None, {}, "", NoRepositories,
                           NoProgress)
            /\ ops' = ops
       ELSE \E r \in Identities :
            /\ ops' = ops (+) SetToBag({Op("v2_reindex", r, Identities \ {r}, "v2_index")})
            /\ ev' = Event("v2_reindex", r, "visit", None, {}, "", "", NoProgress)
    /\ UNCHANGED <<repos, posts>>
    /\ UNCHANGED <<governorVars, v2Vars, serviceVars, resourceVars>>

\* AdminCommands.remove_repos: DELETE FROM repos
v2_remove_repos ==
    /\ repos' = EmptyBag
    /\ ev' = Event("v2_remove_repos", "none", "removed", None, {}, "", "", NoProgress)
    /\ last_indexed_at' = [r \in Repos |-> Null]
    /\ first_poll' = [r \in Repos |-> Null]
    /\ UNCHANGED <<ops, posts>>
    /\ UNCHANGED <<governorVars, serviceVars, resourceVars>>

\* RepositoryService.index_repository: POST repositories, then the command
\* runs on to its end or to its next POST. `response` is what
\* GET repositories/{id} would answer at this moment (the operation does not
\* ask); `outcome` is "started" when the POST is answered and "raised" when
\* _make_request raises. The event carries the statuses the operation read
\* for the repository before the POST.
v2_index_repository(op, response, outcome) ==
    /\ op \in RunningOps /\ op.pc = "v2_index"
    /\ posts[op.repo] < MaxPosts
    /\ posts' = [posts EXCEPT ![op.repo] = @ + 1]
    /\ repos' = repos
    /\ IF outcome = "raised"
       THEN /\ ops' = OpEnded(op)
            /\ ev' = Event(op.cmd, op.repo, "submit", get_repository_status(response),
                           op.reads, "raised", V2UnexpectedError, NoProgress)
       ELSE IF op.cmd = "v2_add_repo"
       THEN /\ ops' = OpEnded(op)
            /\ ev' = Event(op.cmd, op.repo, "submit", get_repository_status(response),
                           op.reads, "started", V2RepositoryAdded, NoProgress)
       ELSE /\ IF op.todo = {}
               THEN ops' = OpEnded(op)
               ELSE \E r \in op.todo :
                      ops' = OpMoved(op, Op("v2_reindex", r, op.todo \ {r}, "v2_index"))
            /\ ev' = Event(op.cmd, op.repo, "submit", get_repository_status(response),
                           op.reads, "started",
                           IF op.todo = {} THEN V2ReindexingStatus ELSE "", NoProgress)
    /\ UNCHANGED <<governorVars, v2Vars, serviceVars, resourceVars>>

V2StatusError == "An unexpected error occurred while fetching repository status."

\* get_config('INDEXING_TIMEOUT', 7200), and the 7200 of check_repository_status
INDEXING_TIMEOUT == 7200

\* @tasks.loop(minutes=30), in seconds
CheckInterval == 1800

\* the status checks of the first MaxCheckSec seconds
MaxCheckSec == 9000

\* faulty variant of get_all_repositories: a row whose last_indexed_at is
\* older than the timeout is left out
get_all_repositories_recent ==
    {[repo |-> r, last_indexed_at |-> last_indexed_at[r]] :
        r \in {x \in Identities :
                  \A t \in last_indexed_at[x] : now - t <= INDEXING_TIMEOUT}}

\* RepositoryService.get_all_repositories: the rows, as dictionaries
get_all_repositories ==
    {[repo |-> r, last_indexed_at |-> last_indexed_at[r]] : r \in Identities}

\* status_info.get('status', 'unknown')
V2Status(response) == GetField(response.status, "unknown")

\* faulty variant of V2Updates: a repository that is being processed counts
\* as indexed
V2Updates_processing(status) == status \in {"completed", "processing"}

\* check_and_update_repo_status updates last_indexed_at for this status
V2Updates(status) == status = "completed"

\* (datetime.now() - repo['last_indexed_at']) is evaluated for a processing
\* repository whose fetched row has a last_indexed_at; the column comes back
\* from sqlite as the str that was stored, and datetime - str raises TypeError
V2TimeoutCheckRaises(status, fetched) == status = "processing" /\ fetched # Null

\* RepositoryService.check_and_update_repo_status (the task of every 30
\* minutes and ~repostatus) up to its first status read: the rows are fetched
v2_check_and_update_repo_status ==
    /\ BagCardinality(ops) < MaxOps
    /\ IF repos = EmptyBag
       THEN /\ ops' = ops
            /\ ev' = Event("v2_check", "none", "checked", None, {}, "", "", NoProgress)
       ELSE \E row \in get_all_repositories :
            /\ ops' = ops (+) SetToBag({[Op("v2_check", row.repo,
                                             {x.repo : x \in get_all_repositories}
                                                 \ {row.repo},
                                             "v2_read")
                                            EXCEPT !.snapshot = last_indexed_at]})
            /\ ev' = Event("v2_check", row.repo, "fetched", None, {}, "", "", NoProgress)
    /\ UNCHANGED <<repos, posts, last_indexed_at, first_poll>>
    /\ UNCHANGED <<governorVars, serviceVars, resourceVars>>

\* check_and_update_repo_status goes on to its next repository, or returns
\* status_updates
V2NextRepo(op) ==
    IF op.todo = {}
    THEN OpEnded(op)
    ELSE LET r == CHOOSE r \in op.todo : TRUE
         IN  OpMoved(op, [op EXCEPT !.repo = r, !.todo = @ \ {r}, !.pc = "v2_read",
                                    !.reads = {}])

\* the alerts of check_repository_status
V2IndexingFailed == "Repository indexing failed"
V2TakingTooLong == "Repository indexing taking too long"

\* update.get('processing_time', 0): no entry of status_updates has the key
V2ProcessingTime(status) == 0

\* the alert check_repository_status reports for an entry of status_updates
\* once check_and_update_repo_status has returned; "" for none
V2Alert(status) ==
    IF status = "failed" THEN V2IndexingFailed
    ELSE IF status = "processing" /\ V2ProcessingTime(status) > INDEXING_TIMEOUT
    THEN V2TakingTooLong
    ELSE ""

\* one status read of check_and_update_repo_status and what follows it up to
\* the next await: a read that raises (`response` is CommError) ends the
\* operation with BotError; completed leads to update_last_indexed; every
\* other status is appended to status_updates as it is, and the event shows
\* the alert that the entry leads to. The history
\* first_poll is left to the specification.
V2Read(op, response) ==
    LET status == V2Status(response)
        info == [status |-> status, filesProcessed |-> 0, numFiles |-> 0]
    IN  /\ op \in RunningOps /\ op.pc = "v2_read"
        /\ IF response = CommError \/ V2TimeoutCheckRaises(status, op.snapshot[op.repo])
           THEN /\ ops' = OpEnded(op)
                /\ ev' = Event(op.cmd, op.repo, "v2_raised",
                               IF response = CommError THEN None ELSE info,
                               op.reads, "raised", V2StatusError, NoProgress)
           ELSE IF V2Updates(status)
           THEN /\ ops' = OpMoved(op, [op EXCEPT !.pc = "v2_update", !.reads = {status}])
                /\ ev' = Event(op.cmd, op.repo, "v2_read", info, {status}, "", "",
                               NoProgress)
           ELSE /\ ops' = V2NextRepo(op)
                /\ ev' = Event(op.cmd, op.repo, "v2_read", info, {status}, status,
                               V2Alert(status), NoProgress)
        /\ UNCHANGED <<repos, posts, last_indexed_at>>
        /\ UNCHANGED <<governorVars, serviceVars, resourceVars>>

\* faulty variant of V2Update: the UPDATE matches no row
V2Update_no_write(op) ==
    LET status == CHOOSE st \in op.reads : TRUE IN
    /\ op \in RunningOps /\ op.pc = "v2_update"
    /\ last_indexed_at' = last_indexed_at
    /\ ops' = V2NextRepo(op)
    /\ ev' = Event(op.cmd, op.repo, "v2_update",
                   [status |-> status, filesProcessed |-> 0, numFiles |-> 0],
                   op.reads, status, "", NoProgress)
    /\ UNCHANGED <<repos, posts, first_poll>>
    /\ UNCHANGED <<governorVars, serviceVars, resourceVars>>

\* RepositoryService.update_last_indexed: UPDATE repos SET last_indexed_at =
\* datetime.now() WHERE remote = ? AND owner = ? AND name = ? AND branch = ?;
\* then the status is appended to status_updates
V2Update(op) ==
    LET status == CHOOSE st \in op.reads : TRUE IN
    /\ op \in RunningOps /\ op.pc = "v2_update"
    /\ last_indexed_at' = IF Registered(op.repo)
                          THEN [last_indexed_at EXCEPT ![op.repo] = {now}]
                          ELSE last_indexed_at
    /\ ops' = V2NextRepo(op)
    /\ ev' = Event(op.cmd, op.repo, "v2_update",
                   [status |-> status, filesProcessed |-> 0, numFiles |-> 0],
                   op.reads, status, "", NoProgress)
    /\ UNCHANGED <<repos, posts, first_poll>>
    /\ UNCHANGED <<governorVars, serviceVars, resourceVars>>

\* the commands of the administrators of v2-dev, in every interleaving
NextV2Index ==
    \/ \E r \in Repos : v2_add_repo(r)
    \/ v2_reindex_repo
    \/ v2_remove_repos
    \/ \E op \in RunningOps, response \in PlainResponses,
          outcome \in {"started", "raised"} : v2_index_repository(op, response, outcome)

SpecV2Index == Init /\ [][NextV2Index]_vars

\* v2-dev: the commands of the administrators and the status check, one
\* operation at a time, with ~removerepos at any moment, and the clock
NextV2Status ==
    \/ \E r \in Repos : ops = EmptyBag /\ v2_add_repo(r)
    \/ ops = EmptyBag /\ v2_reindex_repo
    \/ v2_remove_repos
    \/ \E op \in RunningOps, response \in PlainResponses,
          outcome \in {"started", "raised"} : v2_index_repository(op, response, outcome)
    \/ ops = EmptyBag /\ v2_check_and_update_repo_status
    \/ \E op \in RunningOps, response \in StatusResponses :
          V2Read(op, response) /\ UNCHANGED first_poll
    \/ \E op \in RunningOps : V2Update(op)
    \/ \E d \in 1..MaxStep : Tick(d, FineSec)

SpecV2Status == Init /\ [][NextV2Status]_vars

\* the history of the first status check of a row: the status it reported
FirstPollRecorded(op, response) ==
    first_poll' =
        IF response # CommError /\ Registered(op.repo) /\ first_poll[op.repo] = Null
        THEN [first_poll EXCEPT ![op.repo] = {V2Status(response)}]
        ELSE first_poll

\* the repository of the scenario
ScenarioRepos == {"r1"}

\* completed, with every file processed
CompletedResponses ==
    {[status |-> {"completed"}, filesProcessed |-> {n}, numFiles |-> {n}] : n \in 0..MaxFiles}

\* v2-dev: one repository is added, removed and checked, one operation at a
\* time; the first status check of the row is recorded
NextV2Scenario ==
    \/ \E r \in ScenarioRepos : ops = EmptyBag /\ v2_add_repo(r)
    \/ ops = EmptyBag /\ v2_remove_repos
    \/ \E op \in RunningOps, response \in PlainResponses,
          outcome \in {"started", "raised"} : v2_index_repository(op, response, outcome)
    \/ ops = EmptyBag /\ v2_check_and_update_repo_status
    \/ \E op \in RunningOps, response \in StatusResponses \cup CompletedResponses :
          V2Read(op, response) /\ FirstPollRecorded(op, response)
    \/ \E op \in RunningOps : V2Update(op)
    \/ \E d \in 1..MaxStep : Tick(d, FineSec)

SpecV2Scenario == Init /\ [][NextV2Scenario]_vars

----------------------------------------------------------------------------
(* Repository indexing, root greptilebot.py: check_indexing_status *)

\* progress += 10
ProgressStep == 10

\* progress = min(progress, 90)
ProgressCap == 90

\* polls of one call of the root check_indexing_status
MaxRootPolls == 11

Min(a, b) == IF a <= b THEN a ELSE b

\* faulty variant of RootProgress: the estimate is not capped
RootProgress_uncapped(progress) == progress + ProgressStep

\* the synthetic progress after a poll that is not terminal
RootProgress(progress) == Min(progress + ProgressStep, ProgressCap)

\* root get_repository_status(repo): repo_info['status'], or None on
\* ClientResponseError and ClientError
RootStatuses == UpstreamStatuses \cup {None.status}

\* the root check_indexing_status(ctx, status_message, repo) is called:
\* progress = 0
root_check_indexing_status(r) ==
    /\ ops = EmptyBag
    /\ ops' = ops (+) SetToBag({Op("root_check_indexing_status", r, {}, "root_polling")})
    /\ ev' = Event("root_check_indexing_status", r, "call", None, {}, "", "", NoProgress)
    /\ UNCHANGED <<repos, posts>>
    /\ UNCHANGED <<governorVars, v2Vars, serviceVars, resourceVars>>

\* one iteration of its loop: the status read, the edit of the status
\* message, and the return or the sleep of 60 seconds. `raises`: an exception
\* leaves the function (repo_info['status'] of a response without status,
\* status_message.edit); the function has no try.
RootPoll(op, status, raises) ==
    LET info == IF status = None.status THEN None
                ELSE [status |-> status, filesProcessed |-> 0, numFiles |-> 0]
        reads == op.reads \cup {status}
    IN  /\ op \in RunningOps /\ op.pc = "root_polling"
        /\ op.polls < MaxRootPolls
        /\ IF raises
           THEN /\ ops' = OpEnded(op)
                /\ ev' = Event(op.cmd, op.repo, "root_raised", None, op.reads, "", "",
                               NoProgress)
           ELSE IF status \in {"completed", "failed", None.status}
           THEN /\ ops' = OpEnded(op)
                /\ ev' = Event(op.cmd, op.repo, "root_poll", info, reads,
                               IF status = "completed" THEN "completed" ELSE "failed",
                               "", NoProgress)
           ELSE /\ ops' = OpMoved(op, [op EXCEPT !.polls = @ + 1, !.reads = reads,
                                                !.progress = RootProgress(@)])
                /\ ev' = Event(op.cmd, op.repo, "root_poll", info, reads, "", "",
                               [num |-> RootProgress(op.progress), den |-> 1])
        /\ UNCHANGED <<repos, posts>>
        /\ UNCHANGED <<governorVars, v2Vars, serviceVars, resourceVars>>

\* the root check_indexing_status applied to every sequence of statuses
NextRootPoll ==
    \/ \E r \in Repos : root_check_indexing_status(r)
    \/ \E op \in RunningOps, status \in RootStatuses, raises \in BOOLEAN :
          RootPoll(op, status, raises)

SpecRootPoll == Init /\ [][NextRootPoll]_vars

----------------------------------------------------------------------------
(* The upstream calls of v1-stable and their retries *)

\* get_repository_status(ctx, repo, max_retries: int = 3)
max_retries == 3

\* @retry(stop=stop_after_attempt(3), ...) of make_api_call
stop_after_attempt == 3

\* 'API_RETRIES': '3' of default_config, were it an int
API_RETRIES == 3

\* the upstream calls: the status read, the indexing-start POST of
\* index_repository, and the search and query POST of make_api_call
UpstreamCalls == {"status", "index", "search", "query"}

\* how an attempt ends: with a response, ServerDisconnectedError,
\* ClientResponseError (an HTTP error status, from raise_for_status), another
\* ClientError, or another exception (asyncio.TimeoutError, for one)
Failures == {"disconnected", "http", "client", "other"}
AttemptOutcomes == {"ok"} \cup Failures

\* faulty variant of Retries: one attempt more than the limit
Retries_once_more(call, failure, attempts) ==
    IF call = "status" THEN failure = "disconnected" /\ attempts <= max_retries
    ELSE IF call = "index"
    THEN failure \in {"disconnected", "http", "client"}
            /\ attempts <= API_RETRIES
    ELSE attempts <= stop_after_attempt

\* the call makes another attempt after its attempt number `attempts` failed
\* with `failure`: get_repository_status retries ServerDisconnectedError only;
\* the loop of index_repository retries ClientResponseError and ClientError
\* (ServerDisconnectedError is one); make_api_call, whose @retry names no
\* exception, retries whatever is raised
Retries(call, failure, attempts) ==
    IF call = "status" THEN failure = "disconnected" /\ attempts < max_retries
    ELSE IF call = "index"
    THEN failure \in {"disconnected", "http", "client"}
            /\ attempts < API_RETRIES
    ELSE attempts < stop_after_attempt

\* a call begins; the attempts made are counted in polls
upstream_call(call, r) ==
    /\ ops = EmptyBag
    /\ ops' = ops (+) SetToBag({Op(call, r, {}, "attempt")})
    /\ ev' = Event(call, r, "call", None, {}, "", "", NoProgress)
    /\ UNCHANGED <<repos, posts>>
    /\ UNCHANGED <<governorVars, v2Vars, serviceVars, resourceVars>>

\* one attempt of a call. The step of the event is how the attempt ended, its
\* result is "" when the call goes on to another attempt, "returned" when the
\* call returns the response and "error" when it ends with the error. The
\* loop of index_repository raises TypeError before its first attempt
\* (RangeRaises): the step is "raised" and no attempt is made.
Attempt(op, outcome, response) ==
    LET attempts == op.polls + 1 IN
    /\ op \in RunningOps /\ op.pc = "attempt"
    /\ IF op.cmd = "index" /\ RangeRaises(ConfigValueType)
       THEN /\ ops' = OpEnded(op)
            /\ ev' = Event(op.cmd, op.repo, "raised", None, op.reads, "error", "",
                           [num |-> op.polls, den |-> 1])
       ELSE IF outcome = "ok"
       THEN /\ ops' = OpEnded(op)
            /\ ev' = Event(op.cmd, op.repo, "ok",
                           IF op.cmd = "status" THEN get_repository_status(response)
                           ELSE None,
                           op.reads, "returned", "", [num |-> attempts, den |-> 1])
       ELSE IF Retries(op.cmd, outcome, attempts)
       THEN /\ ops' = OpMoved(op, [op EXCEPT !.polls = attempts,
                                            !.reads = @ \cup {outcome}])
            /\ ev' = Event(op.cmd, op.repo, outcome, None, op.reads \cup {outcome},
                           "", "", [num |-> attempts, den |-> 1])
       ELSE /\ ops' = OpEnded(op)
            /\ ev' = Event(op.cmd, op.repo, outcome, None, op.reads \cup {outcome},
                           "error", "", [num |-> attempts, den |-> 1])
    /\ UNCHANGED <<repos, posts>>
    /\ UNCHANGED <<governorVars, v2Vars, serviceVars, resourceVars>>

\* every call with every sequence of outcomes of its attempts
NextUpstream ==
    \/ \E call \in UpstreamCalls, r \in Repos : upstream_call(call, r)
    \/ \E op \in RunningOps, outcome \in AttemptOutcomes, response \in PlainResponses :
          Attempt(op, outcome, response)

SpecUpstream == Init /\ [][NextUpstream]_vars

\* error reporting alone
SpecReports == Init /\ [][NextReports]_vars

\* access control alone
SpecAccess == Init /\ [][NextAccess]_vars

\* the startup of a process with every secrets.yaml
InitProcess ==
    InitGovernor /\ InitIndex /\ InitReports /\ InitWhitelist /\ InitStartup /\ InitResources

SpecStartup == InitProcess /\ [][NextStartup]_vars

\* the pool of every small size with commands in every interleaving
InitPoolSizes ==
    /\ InitGovernor /\ InitIndex /\ InitService
    /\ InitPools /\ InitConfigStore /\ InitPaging /\ InitUpstream

SpecPool == InitPoolSizes /\ [][NextPool]_vars

\* the same where every body terminates and every waiting get() is served:
\* put() wakes the waiting getters, each of which retries
SpecPoolFair ==
    /\ InitPoolSizes /\ [][NextPool]_vars
    /\ \A c \in Clients : WF_vars(Exits(c)) /\ SF_vars(get(c))

\* v2-dev: the config table is changed between quota decisions
NextV2Quota ==
    \/ \E key \in V2LimitKeys, value \in StoredLimits : v2_set_config(key, value)
    \/ \E u \in QuotaUsers, q \in QueryTypes, n \in 0..MaxCount : CallV2(u, q, n)

SpecV2Quota == Init /\ [][NextV2Quota]_vars

\* v2-dev: the commands and the status check of every 30 minutes over the
\* first hours
NextV2Timeout ==
    \/ \E r \in Repos : ops = EmptyBag /\ v2_add_repo(r)
    \/ ops = EmptyBag /\ v2_reindex_repo
    \/ v2_remove_repos
    \/ \E op \in RunningOps, response \in PlainResponses,
          outcome \in {"started", "raised"} : v2_index_repository(op, response, outcome)
    \/ ops = EmptyBag /\ v2_check_and_update_repo_status
    \/ \E op \in RunningOps, response \in StatusResponses :
          V2Read(op, response) /\ UNCHANGED first_poll
    \/ \E op \in RunningOps : V2Update(op)
    \/ Tick(CheckInterval, MaxCheckSec)

SpecV2Timeout == Init /\ [][NextV2Timeout]_vars

\* the pages of every result list
SpecPaging == Init /\ [][NextPaging]_vars

----------------------------------------------------------------------------
(* Claims *)

NonOwners == {u \in Users : ~IsOwner(u)}

\* the records of one user and type that are dated today
TodayRecords(uq, u, query_type) == SelectSeq(uq[u][query_type], LAMBDA d : d = Today)

\* the daily maximum configured for a class: the stored value of the class's
\* key, 5 for searches, which have no key in v1-stable
DailyMax(query_type) ==
    IF query_type = QUERIES THEN CONFIG[MAX_QUERIES_PER_DAY]
    ELSE IF query_type = SMART_QUERIES THEN CONFIG[MAX_SMART_QUERIES_PER_DAY]
    ELSE DEFAULT_MAX_QUERIES

\* the invocations running for one (user, channel)
InFlight(u, ch) == {t \in Running : t.user = u /\ t.chan = ch}

Denials == {"pending", "cooldown", "quota"}

\* A step is an invocation of search or process_query exactly when it sends a
\* governor reply; the user, channel and class of the invocation are the
\* reply's. The claims below about invocations are stated on such steps.
RepliesAreInvocations ==
    [][reply'.kind # "none" => Governed(reply'.user, reply'.chan, reply'.type)]_vars

\* C1: for every (user, channel) at most one search/process_query invocation
\* is in flight, each running invocation holds its marker, and an invocation
\* that finds the marker present is denied without adding a task or a marker.
C1_SingleFlight ==
    /\ [](\A u \in Users, ch \in Channels :
            /\ Cardinality(InFlight(u, ch)) <= 1
            /\ \A t \in InFlight(u, ch) :
                    CopiesIn(t, tasks) = 1 /\ query_id(u, ch) \in active_queries)
    /\ [][reply'.kind # "none" =>
            LET u == reply'.user  ch == reply'.chan IN
            query_id(u, ch) \in active_queries
                => /\ reply'.kind = "pending"
                   /\ tasks' = tasks
                   /\ active_queries' = active_queries
                   /\ api_calls' = api_calls]_vars

\* C1 witness: a request is denied as pending while the first one of the same
\* (user, channel) is still running
C1_Witness ==
    /\ reply.kind = "pending"
    /\ InFlight(reply.user, reply.chan) # {}

\* C2: a marker in active_queries always belongs to a running invocation, so
\* once an invocation has ended its key is free again.
C2_MarkerReleased ==
    \A u \in Users, ch \in Channels :
        query_id(u, ch) \in active_queries => InFlight(u, ch) # {}

\* C3: a user other than the owner who has max(C) records of class C dated
\* today gets no further request of class C accepted that day.
C3_QuotaDenies ==
    \A u \in NonOwners, ch \in Channels, q \in QueryTypes :
        Len(TodayRecords(user_queries, u, q)) >= DailyMax(q)
            => Decision(u, ch, q) # "accepted"

\* C4: the requests of class C that a user other than the owner gets
\* dispatched upstream within one day never outnumber max(C).
C4_DispatchedWithinQuota ==
    \A u \in NonOwners, q \in QueryTypes : Calls(api_calls, u, q) <= DailyMax(q)

\* C5: the quota check compares the count with the maximum of the request's
\* own class: v1-stable MAX_QUERIES_PER_DAY for queries and
\* MAX_SMART_QUERIES_PER_DAY for smart queries, v2-dev max_searches_per_day
\* for searches.
C5_OwnClassLimit ==
    (qarg.version # "none" /\ ~IsOwner(qarg.user)) =>
        /\ (qarg.version = "v1" /\ qarg.type = QUERIES)
                => (qret <=> qarg.count < CONFIG[MAX_QUERIES_PER_DAY])
        /\ (qarg.version = "v1" /\ qarg.type = SMART_QUERIES)
                => (qret <=> qarg.count < CONFIG[MAX_SMART_QUERIES_PER_DAY])
        /\ (qarg.version = "v2" /\ qarg.type = SEARCH)
                => (qret <=> qarg.count < query_limits[max_searches_per_day])

\* C6: a request that is not denied for concurrency is denied by the cooldown
\* exactly when fewer than 5 seconds passed since the user's last accepted
\* request, with waitSeconds = 5 - elapsed > 0; never when the user has no
\* accepted request yet; and the later of two instants within the cooldown
\* has the strictly smaller waitSeconds.
C6_Cooldown ==
    /\ [][reply'.kind # "none" =>
            LET u == reply'.user
                ch == reply'.chan
                elapsed == now - last_query_time[u]
            IN  query_id(u, ch) \notin active_queries =>
                   /\ elapsed < 5 => /\ reply'.kind = "cooldown"
                                     /\ reply'.wait = 5 - elapsed
                                     /\ reply'.wait > 0
                   /\ elapsed >= 5 => reply'.kind # "cooldown"
                   /\ last_query_time[u] = 0 => reply'.kind # "cooldown"]_vars
    /\ [](\A u \in Users : \A t1, t2 \in now..(now + COOLDOWN_TIME) :
            (t1 < t2 /\ t2 - last_query_time[u] < COOLDOWN_TIME)
                => CooldownLeftAt(t2, last_query_time[u])
                     < CooldownLeftAt(t1, last_query_time[u]))

\* C6 witness: a request denied by the cooldown part-way through the window
C6_Witness ==
    /\ reply.kind = "cooldown"
    /\ reply.wait > 0 /\ reply.wait < COOLDOWN_TIME

\* C7: the checks are evaluated in the order concurrency, cooldown, quota: the
\* reply names the first failing check, and the quota check (which prunes the
\* user's list) runs only when the first two passed.
C7_CheckOrder ==
    [][reply'.kind # "none" =>
        LET u == reply'.user  ch == reply'.chan  q == reply'.type IN
        /\ reply'.kind =
              IF query_id(u, ch) \in active_queries THEN "pending"
              ELSE IF now - last_query_time[u] < COOLDOWN_TIME THEN "cooldown"
              ELSE IF ~can_make_query(user_queries, CONFIG, u, q, Today) THEN "quota"
              ELSE "accepted"
        /\ reply'.kind \in {"pending", "cooldown"} => user_queries' = user_queries]_vars

\* C7 witness: a request that fails the cooldown and the quota check is told
\* about the cooldown
C7_Witness ==
    /\ reply.kind = "cooldown"
    /\ ~can_make_query(user_queries, CONFIG, reply.user, reply.type, Today)

\* C8: a denied request makes no upstream call and leaves active_queries, the
\* user's last_query_time, the user's records dated today and the running
\* invocations as they were.
C8_DenialFrame ==
    [][reply'.kind \in Denials =>
        LET u == reply'.user IN
        /\ active_queries' = active_queries
        /\ last_query_time'[u] = last_query_time[u]
        /\ \A c \in QueryTypes :
              TodayRecords(user_queries', u, c) = TodayRecords(user_queries, u, c)
        /\ api_calls' = api_calls
        /\ tasks' = tasks]_vars

\* C8 witness: a quota denial, the check that touches the user's list
C8_Witness ==
    /\ reply.kind = "quota"
    /\ Len(TodayRecords(user_queries, reply.user, reply.type)) > 0

\* C9: can_make_query is true for the owner for every class, however many of
\* the owner's records are dated today.
C9_OwnerQuota ==
    \A u \in Users : Str(u) = BOT_OWNER_ID =>
        \A q \in QueryTypes : can_make_query(user_queries, CONFIG, u, q, Today)

\* C9 witness: the owner has more records dated today than any daily maximum
C9_Witness ==
    \E q \in QueryTypes :
        Len(TodayRecords(user_queries, Owner, q)) > DEFAULT_MAX_QUERIES

\* C10 as stated: no request of the owner is denied by the cooldown check or
\* by the single-flight check.
C10_OwnerNeverDenied ==
    reply.user = Owner => reply.kind \notin {"pending", "cooldown"}

\* C10 amended: no request of the owner is denied by the quota check; the
\* cooldown and the single-flight check apply to the owner as to anyone else.
C10_OwnerOnlyQuotaExempt ==
    [][(reply'.kind # "none" /\ reply'.user = Owner) =>
        LET ch == reply'.chan IN
        /\ reply'.kind # "quota"
        /\ query_id(Owner, ch) \in active_queries => reply'.kind = "pending"
        /\ (query_id(Owner, ch) \notin active_queries
              /\ now - last_query_time[Owner] < COOLDOWN_TIME)
                => reply'.kind = "cooldown"]_vars

\* C10 witness: the owner is accepted with a full day's records of that class
C10_Witness ==
    /\ reply.user = Owner /\ reply.kind = "accepted"
    /\ Len(TodayRecords(user_queries, Owner, reply.type)) >= DEFAULT_MAX_QUERIES

\* C11: an accepted request whose upstream call returned successfully, with
\* an empty or a non-empty result, appends exactly one usage record dated now
\* to the user's list of the request's class.
C11_RecordOnSuccess ==
    [][\A t \in Running : \A outcome \in {"empty", "ok"} :
        Finish(t, outcome) =>
            user_queries'[t.user][t.type] = Append(user_queries[t.user][t.type], Today)]_vars

\* C12: when the status read of index_repository returns completed or
\* processing, index_repository returns that status in the same step, sends no
\* POST /repositories and neither starts the indexing nor a polling loop.
C12_PreCheckReturns ==
    [][(ev'.step = "precheck" /\ ev'.info # None
            /\ ev'.info.status \in {"completed", "processing"}) =>
        /\ ev'.result = ev'.info.status
        /\ posts' = posts
        /\ \A o \in BagToSet(ops') :
              o.pc \in {"start", "polling"} => CopiesIn(o, ops') <= CopiesIn(o, ops)]_vars

\* C12 witness: a reindex of a repository whose status is completed returned
\* 'completed', with no POST sent for the repository
C12_Witness ==
    /\ ev.cmd = "reindex" /\ ev.step = "precheck"
    /\ ev.info.status = "completed" /\ ev.result = "completed"
    /\ posts[ev.repo] = 0

\* C13: in v2-dev every indexing-start request (POST repositories) of
\* add_repository and of the reindex command comes after a status read of
\* that repository in the same operation, and none is sent for a repository
\* whose status is completed or processing.
C13_V2FreshReadBeforeSubmit ==
    [][(ev'.cmd \in {"v2_add_repo", "v2_reindex"} /\ ev'.step = "submit") =>
        /\ ev'.reads # {}
        /\ ev'.info.status \notin {"completed", "processing"}]_vars

\* the invocations of index_repository for repository r that have passed the
\* status pre-check ("Starting indexing process...") and have not returned
Lifecycles(r) ==
    [o \in {x \in RunningOps : x.repo = r /\ x.pc \in {"start", "polling"}} |-> ops[o]]

C15_UnknownStatusContinues ==
    [][(ev'.step = "poll" /\ ev'.info # None
            /\ ev'.info.status \notin IndexingStatuses) =>
        /\ ev'.result = ""
        /\ \E o \in BagToSet(ops') :
              /\ o.cmd = ev'.cmd /\ o.repo = ev'.repo /\ o.pc = "polling"
              /\ o.polls >= 1 /\ ev'.info.status \in o.reads]_vars

\* C15 witness: check_indexing_status read a response without a status field
\* and an unknown status, went on polling and returned on a later read
C15_Witness ==
    /\ ev.cmd = "check_indexing_status" /\ ev.step = "poll"
    /\ {"Unknown", "queued"} \subseteq ev.reads
    /\ ev.result = "completed"

\* C16: check_indexing_status returns only in an iteration whose status read
\* yielded completed (it returns 'completed'), failed (it returns 'failed'),
\* or nothing, or in which an exception was raised (it returns 'failed'); a
\* read of any other status never ends it, however many polls were made; and
\* index_repository returns 'completed' only if a status read of the
\* repository in the operation returned completed.
C16_ReturnsOnTerminalReadOnly ==
    [][/\ (ev'.step \in {"poll", "raised"} /\ ev'.result # "") =>
              \/ /\ ev'.result = "completed"
                 /\ ev'.step = "poll" /\ ev'.info.status = "completed"
              \/ /\ ev'.result = "failed"
                 /\ \/ ev'.step = "raised"
                    \/ ev'.info = None
                    \/ ev'.info.status = "failed"
       /\ (ev'.step \in {"precheck", "submit", "poll", "raised"}
              /\ ev'.result = "completed") => "completed" \in ev'.reads]_vars

\* C16 witness: check_indexing_status polled twice without a terminal status
\* and returned 'completed' on the read that yielded completed
C16_Witness ==
    /\ ev.cmd = "check_indexing_status" /\ ev.step = "poll"
    /\ {"submitted", "processing"} \subseteq ev.reads
    /\ ev.info.status = "completed" /\ ev.result = "completed"

\* C17: for every poll of check_indexing_status whose status is submitted,
\* cloning or processing, whatever non-negative file counts upstream returns,
\* the progress displayed, filesProcessed / max(numFiles, 1) * 100, is below
\* 100.
C17_ProgressBelow100 ==
    [][(ev'.step = "poll" /\ ev'.result = ""
            /\ ev'.info.status \in {"submitted", "cloning", "processing"}) =>
        ev'.progress.num < 100 * ev'.progress.den]_vars

\* C18: the synthetic progress of the root check_indexing_status is 0 when
\* the function is called; a poll that is not terminal displays the progress
\* raised by 10, or 90 where that would be more; the progress never decreases
\* from one poll to the next and never exceeds 90.
C18_SyntheticProgress ==
    [][/\ \A n \in BagToSet(ops') :
              (n.pc = "root_polling" /\ n.polls = 0) => n.progress = 0
       /\ (ev'.step = "root_poll" /\ ev'.result = "") =>
              \A o \in BagToSet(ops) : \A n \in BagToSet(ops') :
                  (o.pc = "root_polling" /\ n.pc = "root_polling") =>
                      /\ ev'.progress.num = n.progress /\ ev'.progress.den = 1
                      /\ n.progress >= o.progress
                      /\ n.progress <= 90
                      /\ n.progress \in {o.progress + 10, 90}
                      /\ (o.progress + 10 <= 90 => n.progress = o.progress + 10)]_vars

\* C18 witness: a tenth poll that is not terminal displayed 90, as the ninth
C18_Witness ==
    /\ ev.step = "root_poll" /\ ev.result = "" /\ ev.progress.num = 90
    /\ \E o \in RunningOps : o.pc = "root_polling" /\ o.polls >= 10 /\ o.progress = 90

\* the messages add_repo ends with when the repository was not indexed
FailureMessages == {RepositoryRemoved, UnexpectedError}

C20_CommErrorKeepsRegistration ==
    [][(ev'.cmd = "add_repo" /\ ev'.step \in {"precheck", "poll"}
            /\ ev'.info = None /\ ev'.msg # "") =>
        /\ BagIn(ev'.repo, repos) => BagIn(ev'.repo, repos')
        /\ ev'.msg # RepositoryRemoved]_vars

\* C21: register-then-index is atomic: when RepositoryService.add_repository
\* of v2-dev raises, or add_repo of v1-stable ends through one of its
\* exception handlers, the registry holds no row for the repository that was
\* being added.
C21_RegisterThenIndexAtomic ==
    [][(\/ ev'.cmd = "v2_add_repo" /\ ev'.step = "submit" /\ ev'.result = "raised"
        \/ ev'.cmd = "add_repo" /\ ev'.msg = UnexpectedError) =>
        ~BagIn(ev'.repo, repos')]_vars

\* C22: in v2-dev last_indexed_at of a row changes only in a step that
\* follows a status read of that repository which returned completed; status
\* reads of other statuses, failing reads, add_repository and reindex leave
\* last_indexed_at of every row as it is.
C22_LastIndexedOnlyOnCompleted ==
    [][\A r \in Repos :
          (BagIn(r, repos) /\ BagIn(r, repos')
              /\ last_indexed_at'[r] # last_indexed_at[r]) =>
          /\ ev'.cmd = "v2_check" /\ ev'.step = "v2_update" /\ ev'.repo = r
          /\ ev'.reads = {"completed"}]_vars

\* C22 witness: a status check read completed for a repository whose row had
\* a last_indexed_at already, and stored a later one
C22_Witness ==
    /\ ev.cmd = "v2_check" /\ ev.step = "v2_update" /\ ev.reads = {"completed"}
    /\ last_indexed_at[ev.repo] = {now}
    /\ \E o \in RunningOps :
          /\ o.cmd = "v2_check"
          /\ o.snapshot[ev.repo] # Null /\ o.snapshot[ev.repo] # {now}

\* C23: in v2-dev, for a repository that add_repository has registered: the
\* first status check, reporting processing, leaves last_indexed_at of the row
\* null; a later status check that reports completed leaves it set.
C23_ProcessingThenCompleted ==
    [][/\ \A r \in Repos :
              (first_poll[r] = Null /\ first_poll'[r] = {"processing"}) =>
                  /\ last_indexed_at'[r] = Null
                  /\ ev'.repo = r /\ ev'.result = "processing"
       /\ (ev'.cmd = "v2_check" /\ ev'.result = "completed"
              /\ first_poll[ev'.repo] = {"processing"} /\ BagIn(ev'.repo, repos)) =>
              last_indexed_at'[ev'.repo] # Null]_vars

\* C23 witness: add_repository has sent its POST, the first status check of
\* the row reported processing, and a later one reported completed and set
\* last_indexed_at
C23_Witness ==
    /\ ev.cmd = "v2_check" /\ ev.step = "v2_update" /\ ev.result = "completed"
    /\ BagIn(ev.repo, repos) /\ posts[ev.repo] = 1
    /\ first_poll[ev.repo] = {"processing"}
    /\ last_indexed_at[ev.repo] = {now}

\* C24: in v2-dev, add_repository on an empty registry makes
\* get_all_repositories return exactly one entry, the identity added with
\* last_indexed_at null, and the rest of add_repository up to its successful
\* return leaves what get_all_repositories returns as it is.
C24_AddThenList ==
    [][/\ (ev'.cmd = "v2_add_repo" /\ ev'.step = "registered" /\ repos = EmptyBag) =>
              /\ get_all_repositories' = {[repo |-> ev'.repo, last_indexed_at |-> Null]}
              /\ BagCardinality(repos') = 1
       /\ (ev'.cmd = "v2_add_repo" /\ ev'.step = "submit" /\ ev'.result = "started") =>
              /\ get_all_repositories' = get_all_repositories
              /\ repos' = repos]_vars

\* C24 witness: add_repository of an identity, added for the second time,
\* returned successfully and the registry holds the one row it inserted
C24_Witness ==
    /\ ev.cmd = "v2_add_repo" /\ ev.step = "submit" /\ ev.result = "started"
    /\ posts[ev.repo] = 2
    /\ get_all_repositories = {[repo |-> ev.repo, last_indexed_at |-> Null]}

\* C25: the registry never holds two rows of one identity, under every
\* interleaving of the add operations; an add of a registered identity is
\* rejected, sends no upstream request and leaves the registry as it is.
C25_OneRowPerIdentity ==
    [][/\ \A r \in Repos : CopiesIn(r, repos') <= 1
       /\ (ev'.cmd \in {"add_repo", "v2_add_repo"} /\ ev'.step = "denied") =>
              /\ repos' = repos
              /\ posts' = posts
              /\ ops' = ops]_vars

\* C25 witness: of two add_repo of one identity that both found no row, one
\* inserted its row and the other was rolled back
C25_Witness ==
    /\ ev.cmd = "add_repo" /\ ev.step = "rolled_back"
    /\ CopiesIn(ev.repo, repos) = 1

\* C26: a status read of v1-stable makes at most 3 attempts; an attempt that
\* gets a response ends the read with that response (after two dropped
\* connections, with exactly 3 attempts made); a dropped connection is
\* followed by another attempt on the first and on the second attempt, and on
\* the third it ends the read with the error outcome, without a fourth attempt.
C26_StatusReadAttempts ==
    [][(ev'.cmd = "status" /\ ev'.step \in AttemptOutcomes) =>
        /\ ev'.progress.num <= 3
        /\ ev'.step = "ok" => (ev'.result = "returned" /\ ev'.info # None)
        /\ ev'.step = "disconnected" =>
              ev'.result = (IF ev'.progress.num < 3 THEN "" ELSE "error")
        /\ ev'.result # "" => \A o \in BagToSet(ops') : o.cmd # "status"]_vars

\* C26 witness: the connection was dropped twice and the third attempt
\* returned the status
C26_Witness ==
    /\ ev.cmd = "status" /\ ev.step = "ok" /\ ev.result = "returned"
    /\ ev.reads = {"disconnected"} /\ ev.progress.num = 3
    /\ ev.info.status = "completed"

\* C27: an upstream call of v1-stable (status read, indexing-start POST,
\* search POST, query POST) whose attempt fails with an upstream HTTP error
\* status or with a transport error other than a dropped connection is not
\* attempted again: the failure ends the call with the error.
C27_RetriesOnlyDroppedConnection ==
    [][(ev'.cmd \in UpstreamCalls /\ ev'.step \in Failures \ {"disconnected"}) =>
        /\ ev'.result = "error"
        /\ \A o \in BagToSet(ops') : o.cmd # ev'.cmd]_vars

\* C28: the operator is never notified of the same error message twice within
\* 300 seconds: a report that reaches the operator carries a message that
\* reached the operator never before or at least 300 seconds earlier.
C28_NoDuplicateNoticeWithin300 ==
    [][\A m \in ErrorMessages :
          notified'[m] # notified[m] =>
              \A t \in notified[m] : now - t >= 300]_vars

\* the order user < admin < owner of the roles
Rank(role) == CASE role = "USER" -> 1 [] role = "ADMIN" -> 2 [] role = "OWNER" -> 3

\* the user is the bot owner or is whitelisted with a role of at least `role`
Entitled(u, role) ==
    \/ IsOwner(u)
    \/ u \in DOMAIN whitelist /\ Rank(whitelist[u]) >= Rank(role)

\* C29: a command guarded by is_whitelisted(R) is executed exactly for the bot
\* owner id and for the whitelisted users whose role is at least R in the
\* order user < admin < owner; every other user is denied with the visible
\* permission message.
C29_ExecutedOnlyWithRole ==
    [][verdict'.cmd \in Commands =>
          IF Entitled(verdict'.user, RequiredRole[verdict'.cmd])
          THEN verdict'.outcome = "executed"
          ELSE verdict'.outcome = "denied" /\ verdict'.message = PermissionDenied]_vars

\* secrets.yaml is missing, is not YAML, or lacks a required key
Unusable(file) ==
    \/ file.kind \in {"missing", "unparsable"}
    \/ \E key \in required_keys : file.keys[key] = "absent"

\* C30: with a secrets.yaml that is missing, cannot be parsed or lacks a
\* required key, the process is either still starting or has exited with a
\* message and a non-zero status: it never sets up, connects or serves.
C30_UnusableSecretsExit ==
    Unusable(secrets_file) =>
        \/ process = Starting
        \/ /\ process.phase = "exited"
           /\ process.code # Null /\ process.code # {0}
           /\ process.output # ""

\* C30 witness: a file that lacks only BOT_OWNER_ID has ended the process
\* with status 1 and the message of the missing key
C30_Witness ==
    /\ secrets_file.kind = "mapping"
    /\ secrets_file.keys["BOT_OWNER_ID"] = "absent"
    /\ \A key \in required_keys \ {"BOT_OWNER_ID"} : secrets_file.keys[key] = "value"
    /\ process = Exited(1, "Error: Missing required key")

\* C31: after init, the idle connections plus the connections held by
\* operations are max_connections at every moment, no more than
\* max_connections are held, and a command that has ended, by returning or by
\* an exception, holds none: its acquire was matched by a release.
C31_PoolConserved ==
    /\ pool >= 0
    /\ pool + Held(MaxClients) = max_connections
    /\ Held(MaxClients) <= max_connections
    /\ \A c \in Clients : clients[c].pc = "idle" => clients[c].held = 0

\* C31 witness: one command has left its scope by an exception and holds
\* nothing, while another holds the last connection of the pool
C31_Witness ==
    /\ \E c \in Clients : clients[c].pc = "idle" /\ clients[c].exit = "raise"
    /\ \E c \in Clients : clients[c].pc = "holding" /\ clients[c].held = 1
    /\ pool = 0

\* C37: no command waits for a connection while it holds one, and, the bodies
\* terminating, every command that waits for a connection obtains one.
C37_NoNestedAcquireNoStarvation ==
    /\ [](\A c \in Clients : clients[c].pc = "waiting" => clients[c].held = 0)
    /\ \A c \in Clients : (clients[c].pc = "waiting") ~> (clients[c].pc = "holding")

\* C37 witness: every connection is held, and a command that waited for
\* its second scope while the pool was empty now holds one
C37_Witness ==
    /\ pool = 0
    /\ \E c \in Clients :
          /\ clients[c].pc = "holding" /\ clients[c].scope = 2
          /\ clients[c].held = 1
    /\ \E c \in Clients : clients[c].pc = "waiting"

\* the status check has just read the repository of the event as processing
ReadProcessing(e) ==
    /\ e.cmd = "v2_check" /\ e.step \in {"v2_read", "v2_raised"}
    /\ e.info # None /\ e.info.status = "processing"

\* the measure of check_and_update_repo_status: the last_indexed_at of the
\* row is more than INDEXING_TIMEOUT seconds old
PastTimeout(r) == \E t \in last_indexed_at[r] : now - t > INDEXING_TIMEOUT

\* C32: the status check that reads a repository as processing, however long
\* ago its last_indexed_at is, removes no row and changes no last_indexed_at;
\* and every status check that begins takes up every registered repository,
\* the ones past the timeout included.
C32_ProcessingNeverAborted ==
    [][/\ ReadProcessing(ev') => (repos' = repos /\ last_indexed_at' = last_indexed_at)
       /\ (ev'.cmd = "v2_check" /\ ev'.step = "fetched") =>
             \E op \in BagToSet(ops') :
                 op.cmd = "v2_check" /\ {op.repo} \cup op.todo = Identities]_vars

\* C32 witness: a registered repository whose last_indexed_at is more than
\* 7200 seconds old has been read as processing, and its row and its
\* last_indexed_at are as they were
C32_Witness ==
    /\ ReadProcessing(ev)
    /\ Registered(ev.repo) /\ PastTimeout(ev.repo)

\* C35: when the status check reads a repository as processing and the
\* repository is past the timeout of 7200 seconds, the "taking too long"
\* alert is reported for it.
C35_TooLongAlert ==
    [][(ev' # ev /\ ReadProcessing(ev') /\ Registered(ev'.repo)
            /\ PastTimeout(ev'.repo)) =>
          ev'.msg = V2TakingTooLong]_vars

\* the key of the config table that holds the daily maximum of a class
StoreKey(query_type) ==
    IF query_type = QUERIES THEN MAX_QUERIES_PER_DAY
    ELSE IF query_type = SMART_QUERIES THEN MAX_SMART_QUERIES_PER_DAY
    ELSE MAX_SEARCHES_PER_DAY

\* C33: a quota decision of v2-dev for a user other than the owner compares
\* the count with the maximum that the config table holds for the class at
\* the time of the decision, changed or not since the start.
C33_DecisionReadsStore ==
    (qarg.version = "v2" /\ ~IsOwner(qarg.user)) =>
        (qret <=> qarg.count < config_store[StoreKey(qarg.type)])

\* the fields of the embeds, one embed after the other
RECURSIVE Flat(_)
Flat(es) == IF es = <<>> THEN <<>> ELSE Head(es) \o Flat(Tail(es))

\* C38: for every non-empty result list, every embed that search sends has
\* at most 25 fields, the "Response Time" field of the last embed counted,
\* and the fields of the embeds are the results, each once and in their
\* order, followed by "Response Time".
C38_AtMost25Fields ==
    paging.phase = "sent" =>
        /\ \A e \in DOMAIN paging.embeds : Len(paging.embeds[e]) <= 25
        /\ Flat(paging.embeds) =
               [k \in 1..(paging.results + 1) |->
                   IF k <= paging.results THEN k ELSE ResponseTime]

\* C40: whenever add_repo reports "Repository Indexed" for a repository, the
\* registry holds the row of that repository at that moment, in every
\* interleaving of add_repo with removerepos and with other addrepo commands.
C40_IndexedImpliesRegistered ==
    (ev.cmd = "add_repo" /\ ev.msg = RepositoryIndexed) => Registered(ev.repo)

\* C39: an accepted query or search request that ends with an upstream error
\* or with an empty repository registry appends no usage record, so the
\* user's records of today, which the daily quota counts, are the same as
\* before; the cooldown timestamp set at the acceptance of the request is
\* kept, and its marker is released.
C39_FailedRequestNotCounted ==
    [][\A t \in Running :
        (Begin(t, "no_repos") \/ Finish(t, "error")) =>
            /\ user_queries' = user_queries
            /\ \A q \in QueryTypes :
                  TodayRecords(user_queries', t.user, q)
                      = TodayRecords(user_queries, t.user, q)
            /\ last_query_time'[t.user] = last_query_time[t.user]
            /\ CooldownDenied(t.user) => now' - last_query_time'[t.user] < COOLDOWN_TIME
            /\ query_id(t.user, t.chan) \notin active_queries']_vars

\* C39 witness: a request of user 2 was accepted and dispatched, it has
\* ended and released its marker, no usage record of the user exists, and
\* the user is still inside the cooldown the acceptance started
C39_Witness ==
    /\ Calls(api_calls, 2, QUERIES) = 1
    /\ tasks = EmptyBag /\ active_queries = {}
    /\ \A q \in QueryTypes : user_queries[2][q] = <<>>
    /\ last_query_time[2] > 0 /\ CooldownDenied(2)

\* user a issued the request answered in this step, or an accepted request
\* of a took its step
ActsOf(a) ==
    \/ reply'.kind # "none" /\ reply'.user = a
    \/ \E t \in Running : t.user = a /\ CopiesIn(t, tasks') < CopiesIn(t, tasks)

\* user_queries with the records of every user but b erased
OnlyRecordsOf(b) ==
    [u \in Users |-> IF u = b THEN user_queries[b] ELSE [q \in QueryTypes |-> <<>>]]

\* C36: the governor's decision on a request of user B depends only on B's
\* own in-flight markers, B's last accepted time and B's usage records: no
\* request of another non-owner user A, and no step of A's accepted requests,
\* changes any of them or the decision that a request of B would get in any
\* channel and class, so runs that differ only in A's requests give every
\* request of B the same decision.
C36_DecisionIndependentOfOthers ==
    [][\A a \in Users \ {Owner} :
        ActsOf(a) =>
            \A b \in Users \ {a} :
                /\ \A ch \in Channels :
                      (query_id(b, ch) \in active_queries')
                          = (query_id(b, ch) \in active_queries)
                /\ last_query_time'[b] = last_query_time[b]
                /\ user_queries'[b] = user_queries[b]
                /\ \A q \in QueryTypes :
                      can_make_query(user_queries, CONFIG, b, q, Today)
                          = can_make_query(OnlyRecordsOf(b), CONFIG, b, q, Today)
                /\ \A ch \in Channels, q \in QueryTypes :
                      Decision(b, ch, q)' = Decision(b, ch, q)]_vars

\* C36 witness: a search of user 3 is accepted in a channel where a request
\* of user 2 is in flight, while user 2 is inside the cooldown
C36_Witness ==
    /\ reply.user = 3 /\ reply.kind = "accepted"
    /\ query_id(2, reply.chan) \in active_queries
    /\ CooldownDenied(2)

\* a check_indexing_status loop for repository r is running
Polling(r) ==
    \E op \in RunningOps : op.pc = "polling" /\ op.repo = r /\ op.polls < MaxPolls

\* the loop for repository r has just returned `result`
ReturnedBy(r, result) ==
    ev.repo = r /\ ev.step \in {"poll", "raised"} /\ ev.result = result

\* the loop for repository r has just returned from its except clause
RaisedIn(r) == ev.repo = r /\ ev.step = "raised" /\ ev.result = "failed"

\* every iteration of the loop makes one status read: it adds the status it
\* read to those read so far, and an iteration that does not return counts
\* one more poll
OneReadPerIteration ==
    \A op \in RunningOps, response \in StatusResponses, raises \in BOOLEAN :
        Poll(op, response, raises) =>
            /\ ev'.reads = op.reads \cup {get_repository_status(response).status}
            /\ ev'.result = "" =>
                  \E next \in BagToSet(ops') :
                      /\ next = [op EXCEPT !.polls = op.polls + 1, !.reads = ev'.reads]
                      /\ ops' = OpMoved(op, next)

TypeOK ==
    /\ now \in Nat
    /\ \A t \in Running : t.pc \in {"initial_send", "api_call"}

=============================================================================
